---- MODULE Spec2Model ----
(***************************************************************************)
(* CanvasCode: the tool registry / activation state machine (ToolSystem),  *)
(* the tool loader (PaperManager.loadTool / executeCode), the pointer      *)
(* session tracker (PointerSessionManager), the input router               *)
(* (InputManager), the raster overlay bridge (OverlayCanvas) and the       *)
(* colour panel's tool notification (ColorPanel), as state machines.       *)
(*                                                                         *)
(* A tool-supplied handler is arbitrary code: whether one invocation       *)
(* returns or throws is an input of the operation that invokes it.         *)
(* Handlers and loaded snippets are modelled by their outcome (return      *)
(* value or exception); they do not call back into the host.               *)
(***************************************************************************)
EXTENDS Integers, Sequences, FiniteSets

VARIABLES
  tools,            \* ToolSystem.tools: Map<string, Tool>
  activeTool,       \* ToolSystem.activeTool: Tool | null
  nextId,           \* identity of the next tool object to be created
  lifecycle,        \* per tool object, the lifecycle handler the host called on it last
  currentToolName,  \* PaperManager.currentToolName
  currentCode,      \* PaperManager.currentCode
  op,               \* the operation performed last, with its arguments
  calls,            \* handler invocations made by the last operation
  console,          \* console.warn / console.error reports of the last operation
  events,           \* PaperManager notifications emitted by the last operation
  thrown,           \* TRUE iff the last operation raised into its caller
  sessions,         \* PointerSessionManager.sessions: Map<number, PointerData[]>
  returned,         \* value returned by the last tracker or normaliser operation
  stroke,           \* history: events delivered per pointerId since its last start
  faulted,          \* history: a pointer or key handler threw in a dispatch before the last operation
  capture,          \* pointerId handed to setPointerCapture by the last operation
  prevented,        \* TRUE iff the last operation called ev.preventDefault()
  tracked,          \* the tracker calls made by the last routed event
  dispatched,       \* the dispatchPointer calls made by the last routed event
  contacts,         \* pointerIds whose raw down arrived and whose raw up/cancel has not
  downs,            \* <<pointerId, tool object>> pairs: a pointer-down was delivered to its handler
  seen,             \* what get(pointerId) returns while the handler called by the last routed event runs
  primaryColor,     \* ColorPanel.primaryColor
  secondaryColor,   \* ColorPanel.secondaryColor
  colorChangeTimeout, \* TRUE iff the timer set by ColorPanel.notifyColorChange is pending
  canvas,           \* OverlayCanvas.canvas: the overlay element | null
  ctx,              \* OverlayCanvas.ctx: its 2d context | null
  resizeListener,   \* OverlayCanvas.resizeListener | null
  scale,            \* OverlayCanvas.scale, a ratio
  overlays,         \* this.overlay of the Pixel Brush instances that hold a bridge
  drawing,          \* the Pixel Brush instances whose isDrawing is true
  nextEl,           \* identity of the next element / listener to be created
  body,             \* overlay elements attached to document.body
  windowListeners,  \* listeners registered on window for "paperCanvasResized"
  pixels,           \* content of the pixel buffer of each overlay element
  potrace,          \* TRUE iff window.potrace has been set
  project,          \* items imported into paper.project
  pending,          \* traceToPaper calls suspended at `await window.potrace(...)`
  nextCall,         \* identity of the next traceToPaper call
  completed         \* the traceToPaper call that returned last, with its result

hostVars == <<tools, activeTool, nextId, currentToolName, currentCode, lifecycle>>
trackerVars == <<sessions, returned, stroke>>
routerVars == <<capture, prevented, seen, tracked, dispatched, contacts, downs>>
panelVars == <<primaryColor, secondaryColor, colorChangeTimeout>>
overlayVars == <<canvas, ctx, resizeListener, scale, overlays, drawing, nextEl, body, windowListeners,
                 pixels, potrace, project, pending, nextCall, completed>>
vars == <<tools, activeTool, nextId, currentToolName, currentCode, lifecycle,
          op, calls, console, events, thrown, sessions, returned, stroke,
          faulted, capture, prevented, seen, tracked, dispatched, contacts, downs,
          primaryColor, secondaryColor, colorChangeTimeout,
          canvas, ctx, resizeListener, scale, overlays, drawing, nextEl, body, windowListeners,
          pixels, potrace, project, pending, nextCall, completed>>

(***************************************************************************)
(* Bounds                                                                  *)
(***************************************************************************)
MaxTools == 3      \* tool objects created in one behaviour
MaxSession == 3    \* events accumulated in one pointer session before its end
MaxSurfaces == 2   \* overlay surfaces created in one behaviour
MaxTraces == 2     \* traceToPaper calls made in one behaviour

(***************************************************************************)
(* JavaScript values                                                       *)
(***************************************************************************)
Undefined == [t |-> "undefined"]
Null == [t |-> "null"]
Str(s) == [t |-> "string", v |-> s]
Num(s) == [t |-> "number", v |-> s]
\* a number with a fraction, in hundredths: 0.5 is Float(50)
Float(h) == [t |-> "float", h |-> h]

\* ToBoolean, as applied by `!x`, `x && y` and `if (x)`
IsTruthy(x) ==
  CASE x.t = "undefined" -> FALSE
    [] x.t = "null" -> FALSE
    [] x.t = "string" -> x.v # ""
    [] x.t = "number" -> x.v # "0"
    [] OTHER -> TRUE

\* x.name : property access on a non-null value
NameOf(x) == IF x.t = "object" THEN x.name ELSE Undefined

\* optional return values (T | undefined)
None == <<>>
Some(x) == <<x>>

(***************************************************************************)
(* Tool objects                                                            *)
(***************************************************************************)
HookNames == {"onActivate", "onDeactivate", "onPointerDown", "onPointerMove",
              "onPointerUp", "onKeyDown", "onKeyUp", "onColorChange"}

\* an object literal evaluated by tool code; id is the object's identity
ToolObject(id, name, hooks) ==
  [t |-> "object", id |-> id, name |-> name, hooks |-> hooks]

HasHook(tool, hook) == tool.t = "object" /\ hook \in tool.hooks

IdOf(tool) == IF tool.t = "object" THEN tool.id ELSE 0

\* one invocation of a handler: which hook, on which object (identity and
\* name), the active slot at the time of the call, the argument, and whether
\* the handler threw
Call(hook, tool, active, arg, threw) ==
  [hook |-> hook, tool |-> IdOf(tool), name |-> NameOf(tool),
   active |-> IdOf(active), arg |-> arg, threw |-> threw]

(***************************************************************************)
(* ToolSystem                                                              *)
(***************************************************************************)
\* Map.set(key, value)
MapSet(m, k, v) == [x \in (DOMAIN m) \cup {k} |-> IF x = k THEN v ELSE m[x]]

\* The operators below take and return a machine record m: the fields of the
\* ToolSystem and the PaperManager together with what the running operation
\* has done so far (handler calls, console reports, notifications, and
\* whether an exception is propagating out of it).

\* register as it would be if a re-registered name also replaced the active tool
register_replacesActive(m, tool) ==
  IF ~IsTruthy(tool) \/ NameOf(tool).t # "string" \/ NameOf(tool).v = ""
  THEN [m EXCEPT !.thrown = TRUE]
  ELSE [m EXCEPT !.tools = MapSet(@, tool.name.v, tool),
                 !.activeTool = IF NameOf(@) = tool.name THEN tool ELSE @]

\* register as it would be if only the type of the name were validated
register_acceptsEmptyName(m, tool) ==
  IF ~IsTruthy(tool) \/ NameOf(tool).t # "string"
  THEN [m EXCEPT !.thrown = TRUE]
  ELSE [m EXCEPT !.tools = MapSet(@, tool.name.v, tool)]

\* register(tool)
register(m, tool) ==
  IF ~IsTruthy(tool) \/ NameOf(tool).t # "string" \/ NameOf(tool).v = ""
  THEN [m EXCEPT !.thrown = TRUE]
  ELSE [m EXCEPT !.tools = MapSet(@, tool.name.v, tool)]

\* try { tool.hook(arg) } catch (err) { console.error(...) }
tryCall(m, tool, hook, arg, throws) ==
  [m EXCEPT !.calls = Append(@, Call(hook, tool, m.activeTool, arg, throws)),
            !.console = IF throws THEN Append(@, "error") ELSE @]

\* activate as it would be without the unknown-name guard
activate_noGuard(m, name, deactThrows, actThrows) ==
  LET m1 == IF IsTruthy(m.activeTool) /\ HasHook(m.activeTool, "onDeactivate")
            THEN tryCall(m, m.activeTool, "onDeactivate", Undefined, deactThrows)
            ELSE m
  IN IF name \notin DOMAIN m.tools
     THEN [m1 EXCEPT !.activeTool = Undefined, !.thrown = TRUE]
     ELSE LET m2 == [m1 EXCEPT !.activeTool = m.tools[name]]
          IN IF HasHook(m.tools[name], "onActivate")
             THEN tryCall(m2, m.tools[name], "onActivate", Undefined, actThrows)
             ELSE m2

\* activate as it would be if onDeactivate were called outside a try block
activate_deactivateUncaught(m, name, deactThrows, actThrows) ==
  IF name \notin DOMAIN m.tools
  THEN [m EXCEPT !.console = Append(@, "warn")]
  ELSE
    LET next == m.tools[name]
        deact == IsTruthy(m.activeTool) /\ HasHook(m.activeTool, "onDeactivate")
        m1 == IF deact
              THEN [m EXCEPT !.calls = Append(@, Call("onDeactivate", m.activeTool,
                                                      m.activeTool, Undefined,
                                                      deactThrows))]
              ELSE m
        m2 == [m1 EXCEPT !.activeTool = next]
    IN IF deact /\ deactThrows
       THEN [m1 EXCEPT !.thrown = TRUE]
       ELSE IF HasHook(next, "onActivate")
            THEN tryCall(m2, next, "onActivate", Undefined, actThrows)
            ELSE m2

\* activate as it would be if the new tool were activated before the old one
\* is deactivated
activate_activatesFirst(m, name, deactThrows, actThrows) ==
  IF name \notin DOMAIN m.tools
  THEN [m EXCEPT !.console = Append(@, "warn")]
  ELSE
    LET next == m.tools[name]
        m1 == IF HasHook(next, "onActivate")
              THEN tryCall(m, next, "onActivate", Undefined, actThrows)
              ELSE m
        m2 == IF IsTruthy(m.activeTool) /\ HasHook(m.activeTool, "onDeactivate")
              THEN tryCall(m1, m.activeTool, "onDeactivate", Undefined, deactThrows)
              ELSE m1
    IN [m2 EXCEPT !.activeTool = next]

\* activate as it would be if activating the active tool's name returned early
activate_skipsSameName(m, name, deactThrows, actThrows) ==
  IF name \notin DOMAIN m.tools
  THEN [m EXCEPT !.console = Append(@, "warn")]
  ELSE IF NameOf(m.activeTool) = Str(name)
  THEN m
  ELSE
    LET next == m.tools[name]
        m1 == IF IsTruthy(m.activeTool) /\ HasHook(m.activeTool, "onDeactivate")
              THEN tryCall(m, m.activeTool, "onDeactivate", Undefined, deactThrows)
              ELSE m
        m2 == [m1 EXCEPT !.activeTool = next]
    IN IF HasHook(next, "onActivate")
       THEN tryCall(m2, next, "onActivate", Undefined, actThrows)
       ELSE m2

\* activate as it would be if the outgoing tool were not deactivated
activate_withoutDeactivate(m, name, deactThrows, actThrows) ==
  IF name \notin DOMAIN m.tools
  THEN [m EXCEPT !.console = Append(@, "warn")]
  ELSE
    LET next == m.tools[name]
        m2 == [m EXCEPT !.activeTool = next]
    IN IF HasHook(next, "onActivate")
       THEN tryCall(m2, next, "onActivate", Undefined, actThrows)
       ELSE m2

\* activate(name); deactThrows / actThrows: what the two handlers do if invoked
activate(m, name, deactThrows, actThrows) ==
  IF name \notin DOMAIN m.tools
  THEN [m EXCEPT !.console = Append(@, "warn")]
  ELSE
    LET next == m.tools[name]
        m1 == IF IsTruthy(m.activeTool) /\ HasHook(m.activeTool, "onDeactivate")
              THEN tryCall(m, m.activeTool, "onDeactivate", Undefined, deactThrows)
              ELSE m
        m2 == [m1 EXCEPT !.activeTool = next]
    IN IF HasHook(next, "onActivate")
       THEN tryCall(m2, next, "onActivate", Undefined, actThrows)
       ELSE m2

getActiveTool(m) == m.activeTool

getActiveToolName(m) ==
  IF IsTruthy(m.activeTool) THEN m.activeTool.name ELSE Null

PointerTypes == {"pointerdown", "pointermove", "pointerup"}
KeyTypes == {"keydown", "keyup"}

PointerHook(type) ==
  CASE type = "pointerdown" -> "onPointerDown"
    [] type = "pointermove" -> "onPointerMove"
    [] type = "pointerup" -> "onPointerUp"

KeyHook(type) ==
  CASE type = "keydown" -> "onKeyDown"
    [] type = "keyup" -> "onKeyUp"

\* dispatchPointer as it would be without its try / catch
dispatchPointer_uncaught(m, type, e, throws) ==
  IF ~IsTruthy(m.activeTool) THEN m
  ELSE IF HasHook(m.activeTool, PointerHook(type))
       THEN [m EXCEPT !.calls = Append(@, Call(PointerHook(type), m.activeTool,
                                               m.activeTool, e, throws)),
                      !.thrown = throws]
       ELSE m

dispatchPointer(m, type, e, throws) ==
  IF ~IsTruthy(m.activeTool) THEN m
  ELSE IF HasHook(m.activeTool, PointerHook(type))
       THEN tryCall(m, m.activeTool, PointerHook(type), e, throws)
       ELSE m

dispatchKey(m, type, e, throws) ==
  IF ~IsTruthy(m.activeTool) THEN m
  ELSE IF HasHook(m.activeTool, KeyHook(type))
       THEN tryCall(m, m.activeTool, KeyHook(type), e, throws)
       ELSE m

(***************************************************************************)
(* Tool source text.  A snippet is a string; Outcome gives what            *)
(* `new Function(..., code)` followed by the call of the function does:    *)
(* a SyntaxError, an exception, or a returned value.                       *)
(***************************************************************************)
AllHooks == HookNames
PointerHooks == {"onPointerDown", "onPointerMove", "onPointerUp"}

SyntaxErr == [kind |-> "syntaxError"]
Throws == [kind |-> "throws"]
Returns(v) == [kind |-> "returns", value |-> v]

StrokeCode == "return { name: 'Stroke', onPointerDown, onPointerMove, onPointerUp }"
RectangleCode == "return { name: 'Rectangle', onPointerDown, onPointerMove, onPointerUp }"
LineCode == "return { name: 'Line', onPointerDown, onPointerMove, onPointerUp }"
CircleCode == "return { name: 'Circle', onPointerDown, onPointerMove, onPointerUp }"
PixelBrushCode == "return { name: 'Pixel Brush', onActivate, onDeactivate, onPointerDown, onPointerMove, onPointerUp }"
TemplateCode == "return { name: 'Template', <all eight handlers> }"

TOOL_TEMPLATES ==
  [k \in {"stroke", "rectangle", "line", "circle", "pixelbrush", "template"} |->
     CASE k = "stroke" -> [name |-> "Stroke", code |-> StrokeCode]
       [] k = "rectangle" -> [name |-> "Rectangle", code |-> RectangleCode]
       [] k = "line" -> [name |-> "Line", code |-> LineCode]
       [] k = "circle" -> [name |-> "Circle", code |-> CircleCode]
       [] k = "pixelbrush" -> [name |-> "Pixel Brush", code |-> PixelBrushCode]
       [] k = "template" -> [name |-> "Template", code |-> TemplateCode]]

\* snippets a user applies through the code editor
UserSources ==
  {"return {", "throw new Error('boom')", "view.draw()", "return 7",
   "return {}", "return { name: '' }", "return { name: 0 }",
   "return { name: 42 }",
   "return { name: 'A' }", "return { name: 'A', <all eight handlers> }",
   "return { name: 'B', <all eight handlers> }"}

\* the object a snippet's `return { ... }` creates has identity `fresh`
Outcome(code, fresh) ==
  CASE code = "return {" -> SyntaxErr
    [] code = "throw new Error('boom')" -> Throws
    [] code = "view.draw()" -> Returns(Undefined)
    [] code = "undefined" -> Returns(Undefined)
    [] code = "return 7" -> Returns(Num("7"))
    [] code = "return {}" -> Returns(ToolObject(fresh, Undefined, {}))
    [] code = "return { name: '' }" -> Returns(ToolObject(fresh, Str(""), {}))
    [] code = "return { name: 0 }" -> Returns(ToolObject(fresh, Num("0"), {}))
    [] code = "return { name: 42 }" -> Returns(ToolObject(fresh, Num("42"), {}))
    [] code = "return { name: 'A' }" -> Returns(ToolObject(fresh, Str("A"), {}))
    [] code = "return { name: 'A', <all eight handlers> }" ->
         Returns(ToolObject(fresh, Str("A"), AllHooks))
    [] code = "return { name: 'B', <all eight handlers> }" ->
         Returns(ToolObject(fresh, Str("B"), AllHooks))
    [] code = StrokeCode -> Returns(ToolObject(fresh, Str("Stroke"), PointerHooks))
    [] code = RectangleCode -> Returns(ToolObject(fresh, Str("Rectangle"), PointerHooks))
    [] code = LineCode -> Returns(ToolObject(fresh, Str("Line"), PointerHooks))
    [] code = CircleCode -> Returns(ToolObject(fresh, Str("Circle"), PointerHooks))
    [] code = PixelBrushCode ->
         Returns(ToolObject(fresh, Str("Pixel Brush"),
                            PointerHooks \cup {"onActivate", "onDeactivate"}))
    [] code = TemplateCode -> Returns(ToolObject(fresh, Str("Template"), AllHooks))

(***************************************************************************)
(* PaperManager                                                            *)
(***************************************************************************)
\* notifyError / notifyProjectChanged / notifyToolChanged
notify(m, type) == [m EXCEPT !.events = Append(@, type)]

\* catch (error) { console.error(...); this.notifyError(...) }
catchAndReport(m) ==
  notify([m EXCEPT !.thrown = FALSE, !.console = Append(@, "error")], "error")

\* executeCode as it would be if it dropped the active tool before running the
\* snippet
executeCode_clearsActive(m, code, fresh, deactThrows, actThrows) ==
  LET m0 == [m EXCEPT !.currentCode = code, !.activeTool = Null]
      o == Outcome(code, fresh)
  IN IF o.kind # "returns"
     THEN catchAndReport(m0)
     ELSE
       LET maybeTool == o.value
           toolObj == IF IsTruthy(maybeTool) /\ maybeTool.t = "object"
                      THEN maybeTool ELSE Undefined
       IN IF IsTruthy(toolObj) /\ IsTruthy(NameOf(toolObj))
          THEN LET r == register(m0, toolObj) IN
               IF r.thrown
               THEN catchAndReport(r)
               ELSE LET a == activate(r, toolObj.name.v, deactThrows, actThrows)
                    IN IF a.thrown
                       THEN catchAndReport(a)
                       ELSE notify(a, "projectChanged")
          ELSE m0

\* executeCode as it would be if every returned object were registered
executeCode_noNameCheck(m, code, fresh, deactThrows, actThrows) ==
  LET m0 == [m EXCEPT !.currentCode = code]
      o == Outcome(code, fresh)
  IN IF o.kind # "returns"
     THEN catchAndReport(m0)
     ELSE
       LET maybeTool == o.value
           toolObj == IF IsTruthy(maybeTool) /\ maybeTool.t = "object"
                      THEN maybeTool ELSE Undefined
       IN IF IsTruthy(toolObj)
          THEN LET r == register(m0, toolObj) IN
               IF r.thrown
               THEN catchAndReport(r)
               ELSE LET a == activate(r, toolObj.name.v, deactThrows, actThrows)
                    IN IF a.thrown
                       THEN catchAndReport(a)
                       ELSE notify(a, "projectChanged")
          ELSE m0

\* executeCode(code)
executeCode(m, code, fresh, deactThrows, actThrows) ==
  LET m0 == [m EXCEPT !.currentCode = code]
      o == Outcome(code, fresh)
  IN IF o.kind # "returns"
     THEN catchAndReport(m0)
     ELSE
       LET maybeTool == o.value
           toolObj == IF IsTruthy(maybeTool) /\ maybeTool.t = "object"
                      THEN maybeTool ELSE Undefined
       IN IF IsTruthy(toolObj) /\ IsTruthy(NameOf(toolObj))
          THEN LET r == register(m0, toolObj) IN
               IF r.thrown
               THEN catchAndReport(r)
               ELSE LET a == activate(r, toolObj.name.v, deactThrows, actThrows)
                    IN IF a.thrown
                       THEN catchAndReport(a)
                       ELSE notify(a, "projectChanged")
          ELSE m0

\* property names the TOOL_TEMPLATES object literal inherits from
\* Object.prototype
InheritedKeys == {"constructor"}

\* TOOL_TEMPLATES[toolName]: an own entry, an inherited property (a truthy
\* value without a `code` property, whose code reads as the text
\* "undefined"), or undefined
TemplateOf(toolName) ==
  IF toolName \in DOMAIN TOOL_TEMPLATES THEN Some(TOOL_TEMPLATES[toolName])
  ELSE IF toolName \in InheritedKeys
  THEN Some([name |-> "Object", code |-> "undefined"])
  ELSE None

\* loadTool(toolName)
loadTool(m, toolName, fresh, deactThrows, actThrows) ==
  IF TemplateOf(toolName) = None
  THEN catchAndReport(m)
  ELSE LET template == TemplateOf(toolName)[1]
           m0 == [m EXCEPT !.currentToolName = Str(toolName),
                           !.currentCode = template.code]
           x == executeCode(m0, m0.currentCode, fresh, deactThrows, actThrows)
       IN IF x.thrown
          THEN catchAndReport(x)
          ELSE notify(x, "toolChanged")

(***************************************************************************)
(* PointerSessionManager                                                   *)
(***************************************************************************)
PointerIds == {1, 2}
Points == {0, 1}

PointerData == [pointerId : PointerIds, point : Points]
KeyData == [key : {"a", "Enter"}]

\* Map.delete(key)
MapDelete(m, k) == [x \in (DOMAIN m) \ {k} |-> m[x]]

\* start as it would be if it appended to a session that already exists
start_appends(ss, data) ==
  IF data.pointerId \in DOMAIN ss
  THEN [ss EXCEPT ![data.pointerId] = Append(@, data)]
  ELSE MapSet(ss, data.pointerId, <<data>>)

start(ss, data) == MapSet(ss, data.pointerId, <<data>>)

\* move as it would be if it began a session for a pointerId that has none
move_startsSession(ss, data) ==
  IF data.pointerId \in DOMAIN ss
  THEN [ss EXCEPT ![data.pointerId] = Append(@, data)]
  ELSE MapSet(ss, data.pointerId, <<data>>)

move(ss, data) ==
  IF data.pointerId \in DOMAIN ss
  THEN [ss EXCEPT ![data.pointerId] = Append(@, data)]
  ELSE ss

\* end as it would be if the terminal event were not appended
end_dropsTerminal(ss, data) ==
  IF data.pointerId \in DOMAIN ss
  THEN [sessions |-> MapDelete(ss, data.pointerId),
        result |-> Some(ss[data.pointerId])]
  ELSE [sessions |-> ss, result |-> None]

end(ss, data) ==
  IF data.pointerId \in DOMAIN ss
  THEN [sessions |-> MapDelete(ss, data.pointerId),
        result |-> Some(Append(ss[data.pointerId], data))]
  ELSE [sessions |-> ss, result |-> None]

get(ss, pointerId) ==
  IF pointerId \in DOMAIN ss THEN Some(ss[pointerId]) ELSE None

(***************************************************************************)
(* InputManager                                                            *)
(***************************************************************************)
\* a DOM element as the router sees it: whether closest('[draggable="true"]')
\* and closest(".outline-panel") find an element from it
Element(draggable, outline) ==
  [t |-> "object", draggable |-> draggable, outline |-> outline]

RawPointerTypes == {"pointerdown", "pointermove", "pointerup", "pointercancel"}

\* canvas.getBoundingClientRect()
CanvasRect == [left |-> 1]

\* the view has no transform: viewToProject leaves the view point as it is
\* x ?? y
Nullish(x) == x.t = "undefined" \/ x.t = "null"

\* makePointerData as it would be if a missing pressure became 0.5
makePointerData_defaultsHalf(ev) ==
  [pointerId |-> ev.pointerId, point |-> ev.clientX - CanvasRect.left,
   pressure |-> IF Nullish(ev.pressure) THEN Float(50) ELSE ev.pressure]

makePointerData(ev) ==
  [pointerId |-> ev.pointerId, point |-> ev.clientX - CanvasRect.left,
   pressure |-> IF Nullish(ev.pressure) THEN Float(0) ELSE ev.pressure]

makeKeyData(ev) == [key |-> ev.key]

\* shouldIgnore as it would be if only draggable elements were filtered
shouldIgnore_draggableOnly(ev) ==
  IF ~IsTruthy(ev.target) THEN FALSE ELSE ev.target.draggable

shouldIgnore(ev) ==
  IF ~IsTruthy(ev.target) THEN FALSE
  ELSE ev.target.draggable \/ ev.target.outline

\* The router operators take and return the machine record extended with
\* the tracker's sessions and with what the running operation has done to
\* the event (preventDefault, setPointerCapture) and shown to the handler.

\* what the handler can observe while it runs: the result of
\* sessionManager.get(pointerId) and the notifications emitted so far
View(r, data) ==
  [session |-> get(r.sessions, data.pointerId), notified |-> Len(r.events)]

\* the tracker call routePointer makes for an event; `returned` is what the
\* call returns (routePointer does not use it)
track(r, type, data) ==
  [r EXCEPT !.sessions = CASE type = "pointerdown" -> start(@, data)
                           [] type = "pointermove" -> move(@, data)
                           [] type = "pointerup" -> end(@, data).sessions
                           [] OTHER -> @,
            !.returned = IF type = "pointerup" THEN end(r.sessions, data).result
                         ELSE None,
            !.tracked = IF type \in PointerTypes
                        THEN Append(@, [type |-> type, data |-> data]) ELSE @]

\* dispatchPointer, recording what the handler it calls can observe
dispatchSeen(r, type, data, throws) ==
  LET d == dispatchPointer(r, type, data, throws)
  IN [d EXCEPT !.seen = IF Len(d.calls) > Len(r.calls)
                        THEN <<View(r, data)>> ELSE <<>>,
               !.dispatched = Append(@, [type |-> type, data |-> data])]

\* routePointer as it would be without the cancel -> up normalisation
routePointer_noNormalise(r, ev, throws) ==
  IF shouldIgnore(ev) THEN r
  ELSE
    LET r1 == [r EXCEPT !.prevented = TRUE,
                        !.capture = IF ev.type = "pointerdown"
                                    THEN Some(ev.pointerId) ELSE @]
        data == makePointerData(ev)
        type == ev.type
        r2 == track(r1, type, data)
        r3 == IF type \in PointerTypes
              THEN dispatchSeen(r2, type, data, throws) ELSE r2
    IN IF type = "pointerdown" \/ type = "pointerup"
       THEN notify(r3, "projectChanged")
       ELSE r3

\* routePointer as it would be if every routed event were notified
routePointer_notifiesAlways(r, ev, throws) ==
  IF shouldIgnore(ev) THEN r
  ELSE
    LET r1 == [r EXCEPT !.prevented = TRUE,
                        !.capture = IF ev.type = "pointerdown"
                                    THEN Some(ev.pointerId) ELSE @]
        data == makePointerData(ev)
        type == IF ev.type = "pointercancel" THEN "pointerup" ELSE ev.type
        r2 == track(r1, type, data)
        r3 == dispatchSeen(r2, type, data, throws)
    IN notify(r3, "projectChanged")

\* routePointer as it would be if the tool were called before the tracker
routePointer_dispatchFirst(r, ev, throws) ==
  IF shouldIgnore(ev) THEN r
  ELSE
    LET r1 == [r EXCEPT !.prevented = TRUE,
                        !.capture = IF ev.type = "pointerdown"
                                    THEN Some(ev.pointerId) ELSE @]
        data == makePointerData(ev)
        type == IF ev.type = "pointercancel" THEN "pointerup" ELSE ev.type
        r2 == dispatchSeen(r1, type, data, throws)
        r3 == track(r2, type, data)
    IN IF type = "pointerdown" \/ type = "pointerup"
       THEN notify(r3, "projectChanged")
       ELSE r3

\* routePointer as it would be if a move of a contact without a session
\* were not passed on to the tool host
routePointer_skipsUntracked(r, ev, throws) ==
  IF shouldIgnore(ev) THEN r
  ELSE
    LET r1 == [r EXCEPT !.prevented = TRUE,
                        !.capture = IF ev.type = "pointerdown"
                                    THEN Some(ev.pointerId) ELSE @]
        data == makePointerData(ev)
        type == IF ev.type = "pointercancel" THEN "pointerup" ELSE ev.type
        r2 == track(r1, type, data)
        r3 == IF type = "pointermove" /\ data.pointerId \notin DOMAIN r.sessions
              THEN r2 ELSE dispatchSeen(r2, type, data, throws)
    IN IF type = "pointerdown" \/ type = "pointerup"
       THEN notify(r3, "projectChanged")
       ELSE r3

\* routePointer(ev)
routePointer(r, ev, throws) ==
  IF shouldIgnore(ev) THEN r
  ELSE
    LET r1 == [r EXCEPT !.prevented = TRUE,
                        !.capture = IF ev.type = "pointerdown"
                                    THEN Some(ev.pointerId) ELSE @]
        data == makePointerData(ev)
        type == IF ev.type = "pointercancel" THEN "pointerup" ELSE ev.type
        r2 == track(r1, type, data)
        r3 == dispatchSeen(r2, type, data, throws)
    IN IF type = "pointerdown" \/ type = "pointerup"
       THEN notify(r3, "projectChanged")
       ELSE r3

\* handleKeyDown as it would be if the pointer filter were applied to keys
handleKeyDown_filtered(r, ev, throws) ==
  IF shouldIgnore(ev) THEN r
  ELSE dispatchKey(r, "keydown", makeKeyData(ev), throws)

handleKeyDown(r, ev, throws) == dispatchKey(r, "keydown", makeKeyData(ev), throws)

handleKeyUp(r, ev, throws) == dispatchKey(r, "keyup", makeKeyData(ev), throws)

(***************************************************************************)
(* OverlayCanvas (the raster overlay bridge).  The operators take and      *)
(* return a bridge record b: the fields of one OverlayCanvas object        *)
(* together with the parts of the document, the window and the             *)
(* paper.project it acts on, and the console reports and the exception of  *)
(* the running operation.                                                  *)
(***************************************************************************)
\* document.createElement("canvas"), canvas.getContext("2d") and the closure
\* () => this.updateSize(); id is the identity of the element
Canvas(id) == [t |-> "object", id |-> id]
Context(id) == [t |-> "object", canvas |-> id]
Listener(id) == [t |-> "object", id |-> id]

\* marks a tool can leave on the pixel buffer
Pixels == {"p", "q"}

\* what the awaited tracer call and the import of its result do
TraceOutcomes == {"imports", "rejects", "importThrows", "importsNothing",
                  "postThrows"}

\* the item paper.project.importSVG creates for the result of a trace
Item(call, image) == [call |-> call, image |-> image]

\* numbers with a fraction, as ratios in lowest terms
RECURSIVE GCD(_, _)
GCD(a, b) == IF b = 0 THEN a ELSE GCD(b, a % b)

Abs(n) == IF n < 0 THEN 0 - n ELSE n

Ratio(n, d) ==
  LET g == GCD(Abs(n), d)
  IN [num |-> n \div g, den |-> d \div g]

\* x * r for an integer x and a ratio r
Times(x, r) == Ratio(x * r.num, r.den)

\* x / r for an integer x and a ratio r with a positive numerator
Over(x, r) == Ratio(x * r.den, r.num)

\* new OverlayCanvas(scale, potraceOptions): an object that holds nothing
construct(b, s) ==
  [b EXCEPT !.canvas = Null, !.ctx = Null, !.resizeListener = Null,
            !.scale = s]

getScale(b) == b.scale

\* paperToOverlay as it would be if it divided by the scale
paperToOverlay_divides(b, point) ==
  [x |-> Over(point.x, b.scale), y |-> Over(point.y, b.scale)]

paperToOverlay(b, point) ==
  [x |-> Times(point.x, b.scale), y |-> Times(point.y, b.scale)]

getCanvas(b) == b.canvas

getContext(b) == b.ctx

clear(b) ==
  IF IsTruthy(b.ctx) /\ IsTruthy(b.canvas)
  THEN [b EXCEPT !.pixels = MapSet(@, b.canvas.id, {})]
  ELSE b

\* setting canvas.width resets the pixel buffer
updateSize(b, paperCanvas) ==
  IF ~paperCanvas \/ ~IsTruthy(b.canvas) THEN b
  ELSE [b EXCEPT !.pixels = MapSet(@, b.canvas.id, {})]

\* destroy as it would be without its `if (this.canvas)` guard
destroy_unguarded(b) ==
  IF ~IsTruthy(b.canvas) THEN [b EXCEPT !.thrown = TRUE]
  ELSE
    LET b1 == [b EXCEPT !.body = @ \ {b.canvas.id},
                        !.pixels = MapDelete(@, b.canvas.id),
                        !.canvas = Null, !.ctx = Null]
    IN IF IsTruthy(b1.resizeListener)
       THEN [b1 EXCEPT !.windowListeners = @ \ {b1.resizeListener.id},
                       !.resizeListener = Null]
       ELSE b1

destroy(b) ==
  LET b1 == IF IsTruthy(b.canvas)
            THEN [b EXCEPT !.body = @ \ {b.canvas.id},
                           !.pixels = MapDelete(@, b.canvas.id),
                           !.canvas = Null, !.ctx = Null]
            ELSE b
  IN IF IsTruthy(b1.resizeListener)
     THEN [b1 EXCEPT !.windowListeners = @ \ {b1.resizeListener.id},
                     !.resizeListener = Null]
     ELSE b1

\* create as it would be without removing the overlay it already holds
create_withoutDestroy(b, paperCanvas) ==
  IF ~paperCanvas THEN [b EXCEPT !.console = Append(@, "warn")]
  ELSE
    LET id == b.nextEl
        b1 == [b EXCEPT !.canvas = Canvas(id),
                        !.body = @ \cup {id},
                        !.pixels = MapSet(@, id, {}),
                        !.nextEl = id + 1]
        b2 == updateSize(b1, paperCanvas)
    IN [b2 EXCEPT !.ctx = Context(id),
                  !.resizeListener = Listener(id),
                  !.windowListeners = @ \cup {id}]

\* create(); paperCanvas: document.getElementById("paper-canvas") finds it
create(b, paperCanvas) ==
  IF ~paperCanvas THEN [b EXCEPT !.console = Append(@, "warn")]
  ELSE
    LET d == destroy(b)
        id == d.nextEl
        b1 == [d EXCEPT !.canvas = Canvas(id),
                        !.body = @ \cup {id},
                        !.pixels = MapSet(@, id, {}),
                        !.nextEl = id + 1]
        b2 == updateSize(b1, paperCanvas)
    IN [b2 EXCEPT !.ctx = Context(id),
                  !.resizeListener = Listener(id),
                  !.windowListeners = @ \cup {id}]

\* a tool drawing through the context the bridge hands out
draw(b, px) ==
  IF IsTruthy(getContext(b))
  THEN [b EXCEPT !.pixels[b.ctx.canvas] = @ \cup {px}]
  ELSE b

\* the end of a traceToPaper call: `finally { this.clear() }`, then the
\* promise settles with `result`
finish(b, call, image, result) ==
  [clear(b) EXCEPT !.completed = Some([call |-> call, image |-> image,
                                        result |-> result])]

\* traceToPaper up to its `await`; tracerThrows: window.potrace throws when
\* it is called
traceToPaper(b, tracerThrows) ==
  LET call == b.nextCall
      c == [b EXCEPT !.nextCall = @ + 1]
      canvasEl == getCanvas(c)
  IN IF ~IsTruthy(canvasEl)
     THEN finish([c EXCEPT !.console = Append(@, "warn")], call, {}, Null)
     ELSE IF ~c.potrace
     THEN finish([c EXCEPT !.console = Append(@, "error")], call, {}, Null)
     ELSE IF tracerThrows
     THEN finish([c EXCEPT !.console = Append(@, "error")], call,
                 c.pixels[canvasEl.id], Null)
     ELSE [c EXCEPT !.pending = @ \cup {[call |-> call, canvas |-> canvasEl.id,
                                         image |-> c.pixels[canvasEl.id]]}]

\* the rest of traceToPaper as it would be if the overlay were cleared only
\* after a successful import
resume_clearsOnSuccessOnly(b, t, outcome) ==
  LET c == [b EXCEPT !.pending = @ \ {t}]
      item == Item(t.call, t.image)
      done(x, result) ==
        [x EXCEPT !.completed = Some([call |-> t.call, image |-> t.image,
                                      result |-> result])]
  IN CASE outcome = "imports" ->
            finish([c EXCEPT !.project = @ \cup {item}], t.call, t.image, item)
       [] outcome = "importsNothing" -> done(c, Null)
       [] outcome = "postThrows" ->
            done([c EXCEPT !.project = @ \cup {item},
                           !.console = Append(@, "error")], Null)
       [] OTHER -> done([c EXCEPT !.console = Append(@, "error")], Null)

\* the rest of traceToPaper as it would be without its catch block
resume_uncaught(b, t, outcome) ==
  LET c == [b EXCEPT !.pending = @ \ {t}]
      item == Item(t.call, t.image)
  IN CASE outcome = "imports" ->
            finish([c EXCEPT !.project = @ \cup {item}], t.call, t.image, item)
       [] outcome = "importsNothing" ->
            finish(c, t.call, t.image, Null)
       [] outcome = "postThrows" ->
            [clear([c EXCEPT !.project = @ \cup {item}]) EXCEPT !.thrown = TRUE]
       [] OTHER -> [clear(c) EXCEPT !.thrown = TRUE]

\* traceToPaper from the point where the tracer call t settles: the import
\* of the result, the scaling and colouring of the imported item, the catch
\* block and the finally block
resume(b, t, outcome) ==
  LET c == [b EXCEPT !.pending = @ \ {t}]
      item == Item(t.call, t.image)
  IN CASE outcome = "imports" ->
            finish([c EXCEPT !.project = @ \cup {item}], t.call, t.image, item)
       [] outcome = "importsNothing" ->
            finish(c, t.call, t.image, Null)
       [] outcome = "postThrows" ->
            finish([c EXCEPT !.project = @ \cup {item},
                             !.console = Append(@, "error")],
                   t.call, t.image, Null)
       [] OTHER ->
            finish([c EXCEPT !.console = Append(@, "error")],
                   t.call, t.image, Null)

(***************************************************************************)
(* The Pixel Brush template's use of the bridge.  The operators take and   *)
(* return the document record d: the document's body and window listeners  *)
(* together with the bridge each Pixel Brush instance keeps in             *)
(* `this.overlay` (an instance without a bridge is outside d.overlays).    *)
(***************************************************************************)
\* d with the bridge of instance id as the bridge the operators act on
Focus(d, id) ==
  [d EXCEPT !.canvas = d.overlays[id].canvas, !.ctx = d.overlays[id].ctx,
            !.resizeListener = d.overlays[id].resizeListener,
            !.scale = d.overlays[id].scale]

\* this.overlay = <the bridge the operators acted on>
Store(d, id) ==
  [d EXCEPT !.overlays = MapSet(@, id, [canvas |-> d.canvas, ctx |-> d.ctx,
                                        resizeListener |-> d.resizeListener,
                                        scale |-> d.scale])]

\* onActivate: this.overlay = new OverlayCanvas(0.25, ...);
\*             this.ctx = this.overlay.create()
pixelbrush_onActivate(d, id, paperCanvas) ==
  Store(create(construct(d, Ratio(1, 4)), paperCanvas), id)

\* onDeactivate: this.overlay?.destroy(); this.overlay = null; this.ctx = null
pixelbrush_onDeactivate(d, id) ==
  IF id \in DOMAIN d.overlays
  THEN [destroy(Focus(d, id)) EXCEPT !.overlays = MapDelete(@, id)]
  ELSE d

\* the lifecycle handlers of Pixel Brush instances among the handler calls
\* cs, run in the order of the calls
RECURSIVE pixelbrush_handlers(_, _, _)
pixelbrush_handlers(d, cs, paperCanvas) ==
  IF cs = <<>> THEN d
  ELSE
    LET c == Head(cs)
        d1 == IF c.name # Str("Pixel Brush") THEN d
              ELSE IF c.hook = "onActivate"
              THEN pixelbrush_onActivate(d, c.tool, paperCanvas)
              ELSE IF c.hook = "onDeactivate"
              THEN pixelbrush_onDeactivate(d, c.tool)
              ELSE d
    IN pixelbrush_handlers(d1, Tail(cs), paperCanvas)

\* this.ctx of instance id: the handle its bridge's create() returned
HasContext(d, id) == id \in DOMAIN d.overlays /\ IsTruthy(d.overlays[id].ctx)

\* onPointerDown: if (!this.ctx) return; this.isDrawing = true; draw a dot
pixelbrush_onPointerDown(d, id, px) ==
  IF ~HasContext(d, id) THEN d
  ELSE [draw(Focus(d, id), px) EXCEPT !.drawing = @ \cup {id}]

\* onPointerMove: if (!this.isDrawing || !this.ctx) return; draw a line
pixelbrush_onPointerMove(d, id, px) ==
  IF id \notin d.drawing \/ ~HasContext(d, id) THEN d
  ELSE draw(Focus(d, id), px)

\* onPointerUp: if (!this.isDrawing) return; this.isDrawing = false;
\*              if (!this.overlay) return; await this.overlay.traceToPaper()
pixelbrush_onPointerUp(d, id, tracerThrows) ==
  IF id \notin d.drawing THEN d
  ELSE LET d1 == [d EXCEPT !.drawing = @ \ {id}]
       IN IF id \notin DOMAIN d1.overlays THEN d1
          ELSE traceToPaper(Focus(d1, id), tracerThrows)

\* the pointer handlers of Pixel Brush instances among the handler calls cs
RECURSIVE pixelbrush_pointerHandlers(_, _, _, _)
pixelbrush_pointerHandlers(d, cs, px, tracerThrows) ==
  IF cs = <<>> THEN d
  ELSE
    LET c == Head(cs)
        d1 == IF c.name # Str("Pixel Brush") THEN d
              ELSE IF c.hook = "onPointerDown"
              THEN pixelbrush_onPointerDown(d, c.tool, px)
              ELSE IF c.hook = "onPointerMove"
              THEN pixelbrush_onPointerMove(d, c.tool, px)
              ELSE IF c.hook = "onPointerUp"
              THEN pixelbrush_onPointerUp(d, c.tool, tracerThrows)
              ELSE d
    IN pixelbrush_pointerHandlers(d1, Tail(cs), px, tracerThrows)

\* d with the bridge that made the tracer call t as the bridge the operators
\* act on: the bridge that holds the surface handed over, or, once
\* destroyed, a bridge that holds nothing
Caller(d, t) ==
  LET ids == {id \in DOMAIN d.overlays :
                IsTruthy(d.overlays[id].canvas) /\ d.overlays[id].canvas.id = t.canvas}
  IN IF ids = {}
     THEN [d EXCEPT !.canvas = Null, !.ctx = Null, !.resizeListener = Null]
     ELSE Focus(d, CHOOSE id \in ids : TRUE)

(***************************************************************************)
(* ColorPanel.  The operators take and return the machine record extended  *)
(* with the panel's colours and its debounce timer.                        *)
(***************************************************************************)
\* the window "error" listener installed by the PaperManager: an exception
\* that no one catches is logged and notified as an error
reportUncaught(p) ==
  notify([p EXCEPT !.thrown = TRUE, !.console = Append(@, "error")], "error")

\* clearTimeout(pending timer); setTimeout(callback, 100)
notifyColorChange(p) == [p EXCEPT !.colorChangeTimeout = TRUE]

handlePrimaryColorChange(p, color) ==
  notifyColorChange([p EXCEPT !.primaryColor = color])

handleSecondaryColorChange(p, color) ==
  notifyColorChange([p EXCEPT !.secondaryColor = color])

\* the callback notifyColorChange hands to setTimeout
colorChangeCallback(p, throws) ==
  LET p0 == [p EXCEPT !.colorChangeTimeout = FALSE]
      tool == getActiveTool(p0)
      colors == [primary |-> p0.primaryColor, secondary |-> p0.secondaryColor]
  IN IF IsTruthy(tool) /\ HasHook(tool, "onColorChange")
     THEN LET p1 == [p0 EXCEPT !.calls = Append(@, Call("onColorChange", tool,
                                                         p0.activeTool, colors,
                                                         throws))]
          IN IF throws
             THEN reportUncaught(p1)
             ELSE notify(p1, "projectChanged")
     ELSE notify(p0, "projectChanged")

(***************************************************************************)
(* Initial state: a fresh ToolSystem, PaperManager and tracker             *)
(***************************************************************************)
EmptyMap == [x \in {} |-> Undefined]

Init ==
  /\ tools = EmptyMap
  /\ activeTool = Null
  /\ nextId = 1
  /\ lifecycle = EmptyMap
  /\ currentToolName = Null
  /\ currentCode = ""
  /\ op = [name |-> "init"]
  /\ calls = <<>>
  /\ console = <<>>
  /\ events = <<>>
  /\ thrown = FALSE
  /\ sessions = EmptyMap
  /\ returned = None
  /\ stroke = [p \in PointerIds |-> <<>>]
  /\ faulted = FALSE
  /\ capture = None
  /\ prevented = FALSE
  /\ seen = <<>>
  /\ tracked = <<>>
  /\ dispatched = <<>>
  /\ contacts = {}
  /\ downs = {}
  /\ primaryColor = "#007acc"
  /\ secondaryColor = "#ff6b6b"
  /\ colorChangeTimeout = FALSE
  /\ canvas = Null
  /\ ctx = Null
  /\ resizeListener = Null
  /\ scale = Ratio(1, 4)
  /\ overlays = EmptyMap
  /\ drawing = {}
  /\ nextEl = 1
  /\ body = {}
  /\ windowListeners = {}
  /\ pixels = EmptyMap
  /\ potrace = FALSE
  /\ project = {}
  /\ pending = {}
  /\ nextCall = 1
  /\ completed = None

(***************************************************************************)
(* Operations of the tool host (ToolSystem called directly)                *)
(***************************************************************************)
ToolNames == {"A", "B"}
ActivateNames == ToolNames \cup {"Unknown"}

\* values a caller may hand to register: not a tool at all, an object with a
\* bad name, or a new tool object
RegisterArgs(fresh) ==
  {Undefined, Null, Num("7"),
   ToolObject(fresh, Undefined, AllHooks), ToolObject(fresh, Str(""), AllHooks),
   ToolObject(fresh, Num("42"), AllHooks)}
  \cup {ToolObject(fresh, Str(n), h) : n \in ToolNames, h \in {{}, AllHooks}}

\* tool objects the host already holds
KnownTools == {tools[n] : n \in DOMAIN tools} \cup
              (IF IsTruthy(activeTool) THEN {activeTool} ELSE {})

\* the object with identity `fresh` is held by the registry
Holds(tls, fresh) == \E n \in DOMAIN tls : tls[n].id = fresh

\* a handler that exists either returns or throws
ThrowChoices(tool, hook) == IF HasHook(tool, hook) THEN BOOLEAN ELSE {FALSE}

SamplePointerData == {[pointerId |-> 1, point |-> 0], [pointerId |-> 2, point |-> 1]}
SampleKeyData == {[key |-> "a"]}

\* the machine at the start of an operation
Machine ==
  [tools |-> tools, activeTool |-> activeTool,
   currentToolName |-> currentToolName, currentCode |-> currentCode,
   calls |-> <<>>, console |-> <<>>, events |-> <<>>, thrown |-> FALSE]

LifecycleHooks == {"onActivate", "onDeactivate"}

\* the lifecycle handler called last on each tool object, once the handler
\* calls cs have been made in their order
RECURSIVE Lifecycle(_, _)
Lifecycle(l, cs) ==
  IF cs = <<>> THEN l
  ELSE LET c == Head(cs)
       IN Lifecycle(IF c.hook \in LifecycleHooks THEN MapSet(l, c.tool, c.hook)
                    ELSE l,
                    Tail(cs))

\* the machine an operation leaves behind becomes the next state
Commit(m) ==
  /\ tools' = m.tools
  /\ activeTool' = m.activeTool
  /\ currentToolName' = m.currentToolName
  /\ currentCode' = m.currentCode
  /\ lifecycle' = Lifecycle(lifecycle, m.calls)
  /\ calls' = m.calls
  /\ console' = m.console
  /\ events' = m.events
  /\ thrown' = m.thrown
  /\ faulted' = (faulted \/ (op.name \in {"dispatchPointer", "dispatchKey"}
                              /\ \E i \in DOMAIN calls : calls[i].threw))

\* object identity `nextId` is used up when the registry comes to hold it
Allocate(m) ==
  LET isNew == ~Holds(tools, nextId) /\ Holds(m.tools, nextId)
  IN /\ isNew => nextId <= MaxTools
     /\ nextId' = IF isNew THEN nextId + 1 ELSE nextId

Register ==
  \E tool \in RegisterArgs(nextId) \cup KnownTools :
    LET m == register(Machine, tool)
    IN /\ Allocate(m)
       /\ Commit(m)
       /\ op' = [name |-> "register", tool |-> tool]
       /\ UNCHANGED <<trackerVars, routerVars, panelVars, overlayVars>>

Activate ==
  \E name \in ActivateNames :
    \E deactThrows \in ThrowChoices(activeTool, "onDeactivate"),
       actThrows \in BOOLEAN :
      LET m == activate(Machine, name, deactThrows, actThrows)
      IN /\ Commit(m)
         /\ op' = [name |-> "activate", toolName |-> name]
         /\ UNCHANGED <<nextId, trackerVars, routerVars, panelVars, overlayVars>>

DispatchPointer ==
  \E type \in PointerTypes, e \in SamplePointerData :
    \E throws \in ThrowChoices(activeTool, PointerHook(type)) :
      LET m == dispatchPointer(Machine, type, e, throws)
      IN /\ Commit(m)
         /\ op' = [name |-> "dispatchPointer", type |-> type, e |-> e]
         /\ UNCHANGED <<nextId, trackerVars, routerVars, panelVars, overlayVars>>

DispatchKey ==
  \E type \in KeyTypes, e \in SampleKeyData :
    \E throws \in ThrowChoices(activeTool, KeyHook(type)) :
      LET m == dispatchKey(Machine, type, e, throws)
      IN /\ Commit(m)
         /\ op' = [name |-> "dispatchKey", type |-> type, e |-> e]
         /\ UNCHANGED <<nextId, trackerVars, routerVars, panelVars, overlayVars>>

Next ==
  \/ Register
  \/ Activate
  \/ DispatchPointer
  \/ DispatchKey

Spec == Init /\ [][Next]_vars

(***************************************************************************)
(* Operations of the loader (PaperManager driving the ToolSystem)          *)
(***************************************************************************)
LoadKeys == {"pixelbrush", "template", "missing"}

\* names handed to activate once templates are loaded
BrushNames == {"Pixel Brush", "Template", "Unknown"}

ExecuteCode ==
  \E code \in UserSources :
    \E deactThrows \in ThrowChoices(activeTool, "onDeactivate"),
       actThrows \in BOOLEAN :
      LET m == executeCode(Machine, code, nextId, deactThrows, actThrows)
      IN /\ Allocate(m)
         /\ Commit(m)
         /\ op' = [name |-> "executeCode", code |-> code]
         /\ UNCHANGED <<trackerVars, routerVars, panelVars, overlayVars>>

LoadTool ==
  \E toolName \in LoadKeys :
    \E deactThrows \in ThrowChoices(activeTool, "onDeactivate"),
       actThrows \in BOOLEAN :
      LET m == loadTool(Machine, toolName, nextId, deactThrows, actThrows)
      IN /\ Allocate(m)
         /\ Commit(m)
         /\ op' = [name |-> "loadTool", toolName |-> toolName]
         /\ UNCHANGED <<trackerVars, routerVars, panelVars, overlayVars>>

LoaderNext ==
  \/ ExecuteCode
  \/ LoadTool

FailingSources == {"return {", "return { name: '' }"}

\* code that yields no tool is applied
ExecuteFailingCode ==
  \E code \in FailingSources :
    LET m == executeCode(Machine, code, nextId, FALSE, FALSE)
    IN /\ Allocate(m)
       /\ Commit(m)
       /\ op' = [name |-> "executeCode", code |-> code]
       /\ UNCHANGED <<trackerVars, routerVars, panelVars, overlayVars>>

\* new tool objects that define one lifecycle handler only
PartialTools(fresh) ==
  {ToolObject(fresh, Str(n), {h}) : n \in ToolNames, h \in LifecycleHooks}

RegisterPartial ==
  \E tool \in PartialTools(nextId) :
    LET m == register(Machine, tool)
    IN /\ Allocate(m)
       /\ Commit(m)
       /\ op' = [name |-> "register", tool |-> tool]
       /\ UNCHANGED <<trackerVars, routerVars, panelVars, overlayVars>>

LifecycleNext ==
  \/ Register
  \/ RegisterPartial
  \/ Activate

LifecycleSpec == Init /\ [][LifecycleNext]_vars

\* loadTool is handed any string: a template key, an inherited property
\* name, or a name that resolves to nothing
LoadAnyKey ==
  \E toolName \in LoadKeys \cup InheritedKeys :
    \E deactThrows \in ThrowChoices(activeTool, "onDeactivate"),
       actThrows \in BOOLEAN :
      LET m == loadTool(Machine, toolName, nextId, deactThrows, actThrows)
      IN /\ Allocate(m)
         /\ Commit(m)
         /\ op' = [name |-> "loadTool", toolName |-> toolName]
         /\ UNCHANGED <<trackerVars, routerVars, panelVars, overlayVars>>

KeyNext ==
  \/ LoadAnyKey
  \/ ExecuteFailingCode

KeySpec == Init /\ [][KeyNext]_vars

LoaderSpec == Init /\ [][LoaderNext]_vars

\* the host driven both directly and through the loader
HostNext ==
  \/ Next
  \/ LoadTool
  \/ ExecuteFailingCode

HostSpec == Init /\ [][HostNext]_vars

(***************************************************************************)
(* Operations of the pointer session tracker                               *)
(***************************************************************************)
\* room left in the session of data.pointerId (bounds the model's sequences)
HasRoom(data) ==
  data.pointerId \in DOMAIN sessions => Len(sessions[data.pointerId]) < MaxSession

Start ==
  \E data \in PointerData :
    /\ sessions' = start(sessions, data)
    /\ returned' = None
    /\ stroke' = [stroke EXCEPT ![data.pointerId] = <<data>>]
    /\ op' = [name |-> "start", data |-> data,
              replaced |-> IF data.pointerId \in DOMAIN sessions
                           THEN Len(sessions[data.pointerId]) ELSE 0]
    /\ UNCHANGED <<hostVars, calls, console, events, thrown, faulted,
                   routerVars, panelVars, overlayVars>>

Move ==
  \E data \in PointerData :
    /\ HasRoom(data)
    /\ sessions' = move(sessions, data)
    /\ returned' = None
    /\ stroke' = [stroke EXCEPT ![data.pointerId] =
                    IF @ = <<>> THEN @ ELSE Append(@, data)]
    /\ op' = [name |-> "move", data |-> data]
    /\ UNCHANGED <<hostVars, calls, console, events, thrown, faulted,
                   routerVars, panelVars, overlayVars>>

End ==
  \E data \in PointerData :
    LET r == end(sessions, data)
    IN /\ sessions' = r.sessions
       /\ returned' = r.result
       /\ stroke' = [stroke EXCEPT ![data.pointerId] = <<>>]
       /\ op' = [name |-> "end", data |-> data]
       /\ UNCHANGED <<hostVars, calls, console, events, thrown, faulted,
                   routerVars, panelVars, overlayVars>>

Get ==
  \E pointerId \in PointerIds :
    /\ returned' = get(sessions, pointerId)
    /\ op' = [name |-> "get", pointerId |-> pointerId]
    /\ UNCHANGED <<hostVars, calls, console, events, thrown, faulted, sessions, stroke,
                   routerVars, panelVars, overlayVars>>

TrackerNext ==
  \/ Start
  \/ Move
  \/ End
  \/ Get

TrackerSpec == Init /\ [][TrackerNext]_vars

(***************************************************************************)
(* Operations of the running editor: tools are loaded from the templates   *)
(* and the InputManager routes raw pointer and keyboard events             *)
(***************************************************************************)
Targets == {Element(FALSE, FALSE), Element(TRUE, FALSE), Element(FALSE, TRUE)}

\* raw pointer events: contact 1 (a pen, with pressure) on any target,
\* contact 2 (no pressure value) on the canvas proper
RawPointerEvents ==
  {ev \in [type : RawPointerTypes, target : Targets, pointerId : PointerIds,
           clientX : {1, 2}, pressure : {Undefined, Float(50)}] :
     /\ ev.clientX = ev.pointerId
     /\ ev.pressure = (IF ev.pointerId = 1 THEN Float(50) ELSE Undefined)
     /\ ev.pointerId = 2 => ev.target = Element(FALSE, FALSE)}

RawKeyEvents == [key : {"a"}, target : Targets]

\* the type under which a raw pointer event reaches the tracker and the tool
Normal(type) == IF type = "pointercancel" THEN "pointerup" ELSE type

\* the contacts that are down once the raw event ev has arrived
Arrived(cs, ev) ==
  CASE ev.type = "pointerdown" -> cs \cup {ev.pointerId}
    [] ev.type \in {"pointerup", "pointercancel"} -> cs \ {ev.pointerId}
    [] OTHER -> cs

\* <<pointerId, tool object>> for the calls of the handler `hook` among cs
Delivered(cs, hook) ==
  {<<cs[i].arg.pointerId, cs[i].tool>> : i \in {j \in DOMAIN cs : cs[j].hook = hook}}

RouterMachine ==
  [tools |-> tools, activeTool |-> activeTool,
   currentToolName |-> currentToolName, currentCode |-> currentCode,
   calls |-> <<>>, console |-> <<>>, events |-> <<>>, thrown |-> FALSE,
   sessions |-> sessions, returned |-> None,
   capture |-> None, prevented |-> FALSE, seen |-> <<>>,
   tracked |-> <<>>, dispatched |-> <<>>]

CommitRouter(r) ==
  /\ Commit(r)
  /\ sessions' = r.sessions
  /\ capture' = r.capture
  /\ prevented' = r.prevented
  /\ seen' = r.seen
  /\ tracked' = r.tracked
  /\ dispatched' = r.dispatched
  /\ returned' = r.returned
  /\ stroke' = [p \in PointerIds |->
                  IF p \in DOMAIN r.sessions THEN r.sessions[p] ELSE <<>>]

\* routePointer handles one of the raw events evs
Route(evs) ==
  \E ev \in evs :
    \E throws \in ThrowChoices(activeTool, PointerHook(Normal(ev.type))) :
      /\ ev.type = "pointermove" => HasRoom(makePointerData(ev))
      /\ CommitRouter(routePointer(RouterMachine, ev, throws))
      /\ op' = [name |-> "routePointer", ev |-> ev]
      /\ contacts' = Arrived(contacts, ev)
      /\ UNCHANGED <<nextId, panelVars, overlayVars>>

RoutePointer ==
  /\ Route(RawPointerEvents)
  /\ UNCHANGED downs

HandleKeyDown ==
  \E ev \in RawKeyEvents :
    \E throws \in ThrowChoices(activeTool, "onKeyDown") :
      /\ CommitRouter(handleKeyDown(RouterMachine, ev, throws))
      /\ op' = [name |-> "handleKeyDown", ev |-> ev]
      /\ UNCHANGED <<nextId, contacts, downs, panelVars, overlayVars>>

HandleKeyUp ==
  \E ev \in RawKeyEvents :
    \E throws \in ThrowChoices(activeTool, "onKeyUp") :
      /\ CommitRouter(handleKeyUp(RouterMachine, ev, throws))
      /\ op' = [name |-> "handleKeyUp", ev |-> ev]
      /\ UNCHANGED <<nextId, contacts, downs, panelVars, overlayVars>>

RouterNext ==
  \/ LoadTool
  \/ RoutePointer
  \/ HandleKeyDown
  \/ HandleKeyUp

RouterSpec == Init /\ [][RouterNext]_vars

(***************************************************************************)
(* Contacts on the canvas while the active tool is switched: events that   *)
(* pass the filter are routed, tools are loaded and loaded tools           *)
(* activated; `downs` records the pointer-downs delivered to handlers      *)
(***************************************************************************)
\* the raw events of the pen contact that pass the filter
ContactEvents == {ev \in RawPointerEvents : ~shouldIgnore(ev) /\ ev.pointerId = 1}

RouteContact ==
  /\ Route(ContactEvents)
  /\ downs' = downs \cup Delivered(calls', "onPointerDown")

ActivateLoaded ==
  \E name \in BrushNames :
    \E deactThrows \in ThrowChoices(activeTool, "onDeactivate"),
       actThrows \in BOOLEAN :
      /\ Commit(activate(Machine, name, deactThrows, actThrows))
      /\ op' = [name |-> "activate", toolName |-> name]
      /\ UNCHANGED <<nextId, trackerVars, routerVars, panelVars, overlayVars>>

ContactNext ==
  \/ LoadTool
  \/ ActivateLoaded
  \/ RouteContact

ContactSpec == Init /\ [][ContactNext]_vars

(***************************************************************************)
(* Operations on one overlay bridge: a tool creates and destroys it, draws *)
(* on it and traces it; the window is resized; the tracer is initialised   *)
(* and settles the calls made to it                                        *)
(***************************************************************************)
Bridge ==
  [canvas |-> canvas, ctx |-> ctx, resizeListener |-> resizeListener,
   scale |-> scale, nextEl |-> nextEl, body |-> body, windowListeners |-> windowListeners,
   pixels |-> pixels, potrace |-> potrace, project |-> project,
   pending |-> pending, nextCall |-> nextCall, completed |-> None,
   console |-> <<>>, thrown |-> FALSE]

CommitBridge(b) ==
  /\ canvas' = b.canvas
  /\ ctx' = b.ctx
  /\ resizeListener' = b.resizeListener
  /\ scale' = b.scale
  /\ overlays' = overlays
  /\ drawing' = drawing
  /\ nextEl' = b.nextEl
  /\ body' = b.body
  /\ windowListeners' = b.windowListeners
  /\ pixels' = b.pixels
  /\ potrace' = b.potrace
  /\ project' = b.project
  /\ pending' = b.pending
  /\ nextCall' = b.nextCall
  /\ completed' = b.completed
  /\ console' = b.console
  /\ thrown' = b.thrown
  /\ calls' = <<>>
  /\ events' = <<>>
  /\ UNCHANGED <<hostVars, trackerVars, faulted, routerVars, panelVars>>

\* main.ts: `await initPotrace(); window.potrace = potrace`
InitPotrace ==
  /\ ~potrace
  /\ CommitBridge([Bridge EXCEPT !.potrace = TRUE])
  /\ op' = [name |-> "initPotrace"]

Create ==
  \E paperCanvas \in BOOLEAN :
    /\ paperCanvas => nextEl <= MaxSurfaces
    /\ CommitBridge(create(Bridge, paperCanvas))
    /\ op' = [name |-> "create", paperCanvas |-> paperCanvas,
              held |-> IsTruthy(canvas)]

Destroy ==
  /\ CommitBridge(destroy(Bridge))
  /\ op' = [name |-> "destroy", held |-> IsTruthy(canvas)]

Draw ==
  \E px \in Pixels :
    /\ CommitBridge(draw(Bridge, px))
    /\ op' = [name |-> "draw", px |-> px]

\* the "paperCanvasResized" event reaches the listeners registered on window
Resize ==
  \E paperCanvas \in BOOLEAN :
    /\ windowListeners # {}
    /\ CommitBridge(updateSize(Bridge, paperCanvas))
    /\ op' = [name |-> "resize", paperCanvas |-> paperCanvas]

TraceToPaper ==
  \E tracerThrows \in BOOLEAN :
    /\ nextCall <= MaxTraces
    /\ CommitBridge(traceToPaper(Bridge, tracerThrows))
    /\ op' = [name |-> "traceToPaper", call |-> nextCall,
              canvas |-> canvas, potrace |-> potrace,
              tracerThrows |-> tracerThrows]

Resume ==
  \E t \in pending, outcome \in TraceOutcomes :
    /\ CommitBridge(resume(Bridge, t, outcome))
    /\ op' = [name |-> "resume", call |-> t.call, canvas |-> t.canvas,
              outcome |-> outcome]

OverlayNext ==
  \/ InitPotrace
  \/ Create
  \/ Destroy
  \/ Draw
  \/ Resize
  \/ TraceToPaper
  \/ Resume

OverlaySpec == Init /\ [][OverlayNext]_vars

(***************************************************************************)
(* Operations of the colour panel next to the tool loader                  *)
(***************************************************************************)
Colors == {"#007acc", "#ff6b6b"}

PanelMachine ==
  [tools |-> tools, activeTool |-> activeTool,
   currentToolName |-> currentToolName, currentCode |-> currentCode,
   calls |-> <<>>, console |-> <<>>, events |-> <<>>, thrown |-> FALSE,
   primaryColor |-> primaryColor, secondaryColor |-> secondaryColor,
   colorChangeTimeout |-> colorChangeTimeout]

CommitPanel(p) ==
  /\ Commit(p)
  /\ primaryColor' = p.primaryColor
  /\ secondaryColor' = p.secondaryColor
  /\ colorChangeTimeout' = p.colorChangeTimeout
  /\ UNCHANGED <<nextId, trackerVars, routerVars, overlayVars>>

HandlePrimaryColorChange ==
  \E color \in Colors :
    /\ CommitPanel(handlePrimaryColorChange(PanelMachine, color))
    /\ op' = [name |-> "handlePrimaryColorChange", color |-> color]

HandleSecondaryColorChange ==
  \E color \in Colors :
    /\ CommitPanel(handleSecondaryColorChange(PanelMachine, color))
    /\ op' = [name |-> "handleSecondaryColorChange", color |-> color]

\* the debounce timer fires
ColorChangeCallback ==
  \E throws \in ThrowChoices(activeTool, "onColorChange") :
    /\ colorChangeTimeout
    /\ CommitPanel(colorChangeCallback(PanelMachine, throws))
    /\ op' = [name |-> "colorChangeCallback"]

PanelNext ==
  \/ LoadTool
  \/ HandlePrimaryColorChange
  \/ HandleSecondaryColorChange
  \/ ColorChangeCallback

PanelSpec == Init /\ [][PanelNext]_vars

(***************************************************************************)
(* The normaliser on its own: raw events are turned into canonical data    *)
(***************************************************************************)
\* pressure values of raw events: none, or 0, 0.25, 0.5, 1
RawPressures == {Undefined, Null, Float(0), Float(25), Float(50), Float(100)}

NormaliserEvents ==
  [type : RawPointerTypes, target : Targets,
   pointerId : PointerIds, clientX : {1, 2}, pressure : RawPressures]

MakePointerData ==
  \E ev \in NormaliserEvents :
    /\ returned' = Some(makePointerData(ev))
    /\ op' = [name |-> "makePointerData", ev |-> ev]
    /\ UNCHANGED <<hostVars, calls, console, events, thrown, faulted,
                   sessions, stroke, routerVars, panelVars, overlayVars>>

MakeKeyData ==
  \E ev \in RawKeyEvents :
    /\ returned' = Some(makeKeyData(ev))
    /\ op' = [name |-> "makeKeyData", ev |-> ev]
    /\ UNCHANGED <<hostVars, calls, console, events, thrown, faulted,
                   sessions, stroke, routerVars, panelVars, overlayVars>>

NormaliserNext ==
  \/ MakePointerData
  \/ MakeKeyData

NormaliserSpec == Init /\ [][NormaliserNext]_vars

(***************************************************************************)
(* Coordinate mapping of the overlay bridge: bridges are constructed with  *)
(* a scale, created and destroyed, and map points                          *)
(***************************************************************************)
Scales == {Ratio(1, 4), Ratio(1, 2), Ratio(1, 1)}

ScenePoints == [x : {0 - 4, 0, 3, 100}, y : {0, 7, 40}]

\* a tool replaces the bridge it has destroyed (or never created) by a new one
Construct ==
  \E s \in Scales :
    /\ ~IsTruthy(canvas) /\ ~IsTruthy(resizeListener)
    /\ CommitBridge(construct(Bridge, s))
    /\ op' = [name |-> "construct", scale |-> s]

PaperToOverlay ==
  \E point \in ScenePoints :
    /\ returned' = Some(paperToOverlay(Bridge, point))
    /\ op' = [name |-> "paperToOverlay", point |-> point]
    /\ UNCHANGED <<hostVars, calls, console, events, thrown, faulted,
                   sessions, stroke, routerVars, panelVars, overlayVars>>

MappingNext ==
  \/ Construct
  \/ Create
  \/ Destroy
  \/ PaperToOverlay

MappingSpec == Init /\ [][MappingNext]_vars

(***************************************************************************)
(* Tools are loaded, applied and activated while the Pixel Brush's         *)
(* lifecycle handlers create and destroy their bridges.  The handlers do   *)
(* not read the host and the host does not read the document, so the       *)
(* handlers' effects are applied to the document in call order.            *)
(***************************************************************************)
BrushSources == {PixelBrushCode, "return { name: 'A', <all eight handlers> }",
                 "return {"}

Document ==
  [canvas |-> Null, ctx |-> Null, resizeListener |-> Null, scale |-> Ratio(1, 4),
   overlays |-> overlays, nextEl |-> nextEl, body |-> body,
   windowListeners |-> windowListeners, pixels |-> pixels,
   drawing |-> drawing, potrace |-> potrace, project |-> project,
   pending |-> pending, nextCall |-> nextCall, completed |-> None,
   console |-> <<>>, thrown |-> FALSE]

\* the operation left the machine m; its Pixel Brush handlers (which return
\* normally) ran against the document
CommitBrush(m, paperCanvas) ==
  LET d == pixelbrush_handlers(Document, m.calls, paperCanvas)
  IN /\ \A i \in DOMAIN m.calls :
          m.calls[i].name = Str("Pixel Brush") => ~m.calls[i].threw
     /\ d.nextEl <= MaxSurfaces + 1
     /\ Commit([m EXCEPT !.console = @ \o d.console])
     /\ overlays' = d.overlays
     /\ nextEl' = d.nextEl
     /\ body' = d.body
     /\ windowListeners' = d.windowListeners
     /\ pixels' = d.pixels
     /\ UNCHANGED <<canvas, ctx, resizeListener, scale, drawing, potrace, project,
                    pending, nextCall, completed>>
     /\ UNCHANGED <<trackerVars, routerVars, panelVars>>

BrushLoadTool ==
  \E toolName \in LoadKeys, paperCanvas \in BOOLEAN :
    \E deactThrows \in ThrowChoices(activeTool, "onDeactivate"),
       actThrows \in BOOLEAN :
      LET m == loadTool(Machine, toolName, nextId, deactThrows, actThrows)
      IN /\ Allocate(m)
         /\ CommitBrush(m, paperCanvas)
         /\ op' = [name |-> "loadTool", toolName |-> toolName]

BrushExecuteCode ==
  \E code \in BrushSources, paperCanvas \in BOOLEAN :
    \E deactThrows \in ThrowChoices(activeTool, "onDeactivate"),
       actThrows \in BOOLEAN :
      LET m == executeCode(Machine, code, nextId, deactThrows, actThrows)
      IN /\ Allocate(m)
         /\ CommitBrush(m, paperCanvas)
         /\ op' = [name |-> "executeCode", code |-> code]

BrushActivate ==
  \E name \in BrushNames, paperCanvas \in BOOLEAN :
    \E deactThrows \in ThrowChoices(activeTool, "onDeactivate"),
       actThrows \in BOOLEAN :
      LET m == activate(Machine, name, deactThrows, actThrows)
      IN /\ CommitBrush(m, paperCanvas)
         /\ op' = [name |-> "activate", toolName |-> name]
         /\ UNCHANGED nextId

BrushNext ==
  \/ BrushLoadTool
  \/ BrushExecuteCode
  \/ BrushActivate

BrushSpec == Init /\ [][BrushNext]_vars

(***************************************************************************)
(* Strokes of the Pixel Brush: templates are loaded, the events of a       *)
(* contact are routed to the active tool, the Pixel Brush's pointer        *)
(* handlers draw on its bridge and start a trace on release, and the       *)
(* tracer settles the calls made to it                                     *)
(***************************************************************************)
CommitStroke(d) ==
  /\ pixels' = d.pixels
  /\ drawing' = d.drawing
  /\ project' = d.project
  /\ pending' = d.pending
  /\ nextCall' = d.nextCall
  /\ completed' = d.completed
  /\ UNCHANGED <<canvas, ctx, resizeListener, scale, overlays, nextEl, body,
                 windowListeners, potrace>>

\* the mark the brush leaves
BrushMarks == {"p"}

RouteToBrush ==
  \E ev \in ContactEvents, px \in BrushMarks, tracerThrows \in BOOLEAN :
    \E throws \in ThrowChoices(activeTool, PointerHook(Normal(ev.type))) :
      LET r == routePointer(RouterMachine, ev, throws)
          d == pixelbrush_pointerHandlers(Document, r.calls, px, tracerThrows)
      IN /\ ev.type = "pointermove" => HasRoom(makePointerData(ev))
         /\ \A i \in DOMAIN r.calls :
              r.calls[i].name = Str("Pixel Brush") => ~r.calls[i].threw
         /\ d.nextCall <= MaxTraces + 1
         /\ CommitRouter([r EXCEPT !.console = @ \o d.console])
         /\ CommitStroke(d)
         /\ op' = [name |-> "routePointer", ev |-> ev]
         /\ contacts' = Arrived(contacts, ev)
         /\ UNCHANGED <<nextId, downs, panelVars>>

\* the tracer call t settles and the traceToPaper call that made it goes on
ResumeTrace ==
  \E t \in pending, outcome \in TraceOutcomes :
    LET d == resume(Caller(Document, t), t, outcome)
    IN /\ CommitStroke(d)
       /\ console' = d.console
       /\ thrown' = d.thrown
       /\ calls' = <<>>
       /\ events' = <<>>
       /\ op' = [name |-> "resume", call |-> t.call, canvas |-> t.canvas,
                 outcome |-> outcome]
       /\ UNCHANGED <<hostVars, trackerVars, faulted, routerVars, panelVars>>

\* the Pixel Brush is loaded, with the host canvas in the document or not
LoadPixelBrush ==
  \E paperCanvas \in BOOLEAN :
    LET m == loadTool(Machine, "pixelbrush", nextId, FALSE, FALSE)
    IN /\ Allocate(m)
       /\ CommitBrush(m, paperCanvas)
       /\ op' = [name |-> "loadTool", toolName |-> "pixelbrush"]

StrokeNext ==
  \/ InitPotrace
  \/ LoadPixelBrush
  \/ RouteToBrush
  \/ ResumeTrace

StrokeSpec == Init /\ [][StrokeNext]_vars

(***************************************************************************)
(* Claims about the tool host                                              *)
(***************************************************************************)
IsDispatch(o) == o.name \in {"dispatchPointer", "dispatchKey"}

\* the handler a dispatch operation addresses
DispatchHook(o) ==
  IF o.name = "dispatchPointer" THEN PointerHook(o.type) ELSE KeyHook(o.type)

\* the last operation made exactly one handler call: `hook` on `tool` with `arg`
CalledOnce(cs, hook, tool, arg) ==
  /\ Len(cs) = 1
  /\ cs[1].hook = hook
  /\ cs[1].tool = tool.id
  /\ cs[1].arg = arg

\* C1: a dispatchPointer / dispatchKey call never raises into its caller and
\* never changes the active slot, whether or not the handler throws; and
\* every dispatch, also one made after a handler has thrown, invokes the
\* corresponding handler of the active tool (when the tool has one) with the
\* event.
C1_DispatchIsolatesHandlerErrors ==
  [][IsDispatch(op') =>
       /\ ~thrown'
       /\ activeTool' = activeTool
       /\ (HasHook(activeTool, DispatchHook(op')) =>
             CalledOnce(calls', DispatchHook(op'), activeTool, op'.e))
       /\ (~HasHook(activeTool, DispatchHook(op')) => calls' = <<>>)]_vars

\* C1 witness: a pointer dispatch that follows a dispatch whose handler threw
\* reaches the pointer handler of the tool that is still active.
C1_Witness ==
  /\ faulted
  /\ op.name = "dispatchPointer"
  /\ CalledOnce(calls, PointerHook(op.type), activeTool, op.e)
  /\ ~calls[1].threw
  /\ ~thrown

\* C2: activate(name) with a name that is no key of the registry leaves the
\* active slot (and the active tool name) as it was, invokes no handler and
\* reports the failure on the console.
C2_ActivateUnknownName ==
  [][(op'.name = "activate" /\ op'.toolName \notin DOMAIN tools) =>
       /\ activeTool' = activeTool
       /\ getActiveToolName([activeTool |-> activeTool'])
            = getActiveToolName([activeTool |-> activeTool])
       /\ calls' = <<>>
       /\ console' = <<"warn">>
       /\ ~thrown']_vars

\* C2 witness: an unknown name was activated while a tool was active.
C2_Witness ==
  /\ op.name = "activate"
  /\ op.toolName \notin DOMAIN tools
  /\ IsTruthy(activeTool)
  /\ console = <<"warn">>

\* number of handler calls a condition contributes
Count(b) == IF b THEN 1 ELSE 0

\* C3: activate(name) with a registered name calls the previous tool's
\* onDeactivate (if there is one) while that tool still occupies the slot,
\* then sets the slot, then calls the new tool's onActivate (if there is
\* one) with the new tool in the slot; no exception of either handler
\* reaches the caller, and the slot ends up holding the registered tool.
C3_ActivateLifecycle ==
  [][(op'.name = "activate" /\ op'.toolName \in DOMAIN tools) =>
       LET next == tools[op'.toolName]
           d == Count(HasHook(activeTool, "onDeactivate"))
           a == Count(HasHook(next, "onActivate"))
       IN /\ ~thrown'
          /\ activeTool' = next
          /\ Len(calls') = d + a
          /\ (d = 1 => /\ calls'[1].hook = "onDeactivate"
                       /\ calls'[1].tool = activeTool.id
                       /\ calls'[1].active = activeTool.id)
          /\ (a = 1 => /\ calls'[d + 1].hook = "onActivate"
                       /\ calls'[d + 1].tool = next.id
                       /\ calls'[d + 1].active = next.id)]_vars

\* C3 witness: both lifecycle handlers ran and both threw, and the slot holds
\* the newly activated tool.
C3_Witness ==
  /\ op.name = "activate"
  /\ Len(calls) = 2
  /\ calls[1].hook = "onDeactivate" /\ calls[1].threw
  /\ calls[2].hook = "onActivate" /\ calls[2].threw
  /\ activeTool.id = calls[2].tool
  /\ activeTool = tools[op.toolName]
  /\ ~thrown

\* C5: when the registry holds, under the active tool's name, another
\* instance than the active one (the name was registered again while the
\* tool was active) and that name is activated, the handlers called are
\* exactly onDeactivate on the instance that was active and then onActivate
\* on the instance now in the registry, once each (for the handlers the two
\* instances have).
C5_ReactivateAfterReregister ==
  [][(/\ op'.name = "activate"
      /\ IsTruthy(activeTool)
      /\ activeTool.name = Str(op'.toolName)
      /\ tools[op'.toolName].id # activeTool.id
      /\ HasHook(activeTool, "onDeactivate")
      /\ HasHook(tools[op'.toolName], "onActivate")) =>
       /\ Len(calls') = 2
       /\ calls'[1].hook = "onDeactivate"
       /\ calls'[1].tool = activeTool.id
       /\ calls'[2].hook = "onActivate"
       /\ calls'[2].tool = tools[op'.toolName].id
       /\ activeTool' = tools[op'.toolName]]_vars

\* C5 witness: the old instance of a name was deactivated and the new
\* instance of the same name activated by one activate call.
C5_Witness ==
  /\ op.name = "activate"
  /\ Len(calls) = 2
  /\ calls[1].hook = "onDeactivate"
  /\ calls[2].hook = "onActivate"
  /\ calls[1].name = Str(op.toolName)
  /\ calls[2].name = Str(op.toolName)
  /\ calls[1].tool # calls[2].tool
  /\ activeTool.id = calls[2].tool

\* C8: register never changes the active slot; while the registry entry of
\* the active tool's name holds another instance, getActiveTool still
\* returns the old instance and pointer and key events are dispatched to the
\* old instance.
C8_RegisterKeepsActiveSlot ==
  [][/\ (op'.name = "register" =>
           getActiveTool([activeTool |-> activeTool'])
             = getActiveTool([activeTool |-> activeTool]))
     /\ ((/\ IsDispatch(op')
          /\ IsTruthy(activeTool)
          /\ tools[activeTool.name.v].id # activeTool.id
          /\ HasHook(activeTool, DispatchHook(op'))) =>
           /\ CalledOnce(calls', DispatchHook(op'), activeTool, op'.e)
           /\ activeTool' = activeTool)]_vars

\* C8 witness: an event was dispatched to the active instance although the
\* registry holds a newer instance under its name.
C8_Witness ==
  /\ op.name = "dispatchPointer"
  /\ IsTruthy(activeTool)
  /\ tools[activeTool.name.v].id # activeTool.id
  /\ CalledOnce(calls, PointerHook(op.type), activeTool, op.e)

\* the argument of register is no tool with a non-empty string name
BadTool(tool) ==
  \/ tool.t # "object"
  \/ tool.name.t # "string"
  \/ tool.name.v = ""

\* C9: register(def) raises a validation error when def is missing or its
\* name is not a non-empty string, and then changes neither the registry nor
\* the active slot; otherwise it stores def under its name, replacing an
\* entry of that name and leaving every other entry alone.
C9_RegisterValidates ==
  [][op'.name = "register" =>
       IF BadTool(op'.tool)
       THEN /\ thrown'
            /\ tools' = tools
            /\ activeTool' = activeTool
       ELSE /\ ~thrown'
            /\ DOMAIN tools' = DOMAIN tools \cup {op'.tool.name.v}
            /\ tools'[op'.tool.name.v] = op'.tool
            /\ \A n \in DOMAIN tools : n # op'.tool.name.v => tools'[n] = tools[n]]_vars

\* C9 witness: an object with a bad name was refused while the registry held
\* tools and a tool was active.
C9_Witness ==
  /\ op.name = "register"
  /\ op.tool.t = "object"
  /\ BadTool(op.tool)
  /\ thrown
  /\ DOMAIN tools # {}
  /\ IsTruthy(activeTool)

(***************************************************************************)
(* Claims about the loader                                                 *)
(***************************************************************************)
Emitted(ev, type) == \E i \in DOMAIN ev : ev[i] = type

\* the last operation was a load that registered and activated a tool
LoadSucceeded(o, ev) ==
  o.name \in {"executeCode", "loadTool"} /\ Emitted(ev, "projectChanged")

\* the source text a load operation ran
SourceOf(o) ==
  IF o.name = "loadTool" THEN TOOL_TEMPLATES[o.toolName].code ELSE o.code

\* the name of the tool that source text produces
LoadedName(o) == Outcome(SourceOf(o), 0).value.name

\* C4: when a load that registered and activated tool A is followed by a
\* load that registers and activates tool B, A's onActivate was the last
\* handler call of the first load, the second load calls A's onDeactivate
\* and then B's onActivate (each if the tool has the handler, and nothing
\* else), and afterwards getActiveToolName() is B's name.
C4_LoadThenLoadOrder ==
  [][(LoadSucceeded(op, events) /\ LoadSucceeded(op', events')) =>
       LET A == activeTool
           B == activeTool'
           d == Count(HasHook(A, "onDeactivate"))
           a == Count(HasHook(B, "onActivate"))
       IN /\ A.name = LoadedName(op)
          /\ B.name = LoadedName(op')
          /\ B.id # A.id
          /\ getActiveToolName([activeTool |-> activeTool']) = LoadedName(op')
          /\ (HasHook(A, "onActivate") =>
                /\ calls # <<>>
                /\ calls[Len(calls)].hook = "onActivate"
                /\ calls[Len(calls)].tool = A.id)
          /\ Len(calls') = d + a
          /\ (d = 1 => /\ calls'[1].hook = "onDeactivate"
                       /\ calls'[1].tool = A.id)
          /\ (a = 1 => /\ calls'[d + 1].hook = "onActivate"
                       /\ calls'[d + 1].tool = B.id)]_vars

\* C4 witness: tool "A" was loaded first and tool "B" second; loading "B"
\* called A's onDeactivate and then B's onActivate, and "B" is active.
C4_Witness ==
  /\ LoadSucceeded(op, events)
  /\ LoadedName(op) = Str("B")
  /\ nextId = 3
  /\ "A" \in DOMAIN tools
  /\ Len(calls) = 2
  /\ calls[1].hook = "onDeactivate" /\ calls[1].tool = tools["A"].id
  /\ calls[2].hook = "onActivate" /\ calls[2].tool = tools["B"].id
  /\ getActiveToolName([activeTool |-> activeTool]) = Str("B")

\* the load ran source text that does not compile or that throws
FailingSource(o) ==
  o.name = "executeCode" /\ Outcome(o.code, 0).kind # "returns"

\* the load asked for a template that does not exist
MissingTemplate(o) ==
  o.name = "loadTool" /\ o.toolName \notin DOMAIN TOOL_TEMPLATES

\* C6: a load whose source fails to compile or throws when run (or whose
\* template does not exist) raises nothing into its caller, emits exactly an
\* error notification, and leaves the active tool and the registry as they
\* were.
C6_FailedLoadKeepsActiveTool ==
  [][(FailingSource(op') \/ MissingTemplate(op')) =>
       /\ ~thrown'
       /\ events' = <<"error">>
       /\ activeTool' = activeTool
       /\ tools' = tools]_vars

\* C6 witness: a snippet threw while a tool was active, and the tool is
\* still active.
C6_Witness ==
  /\ op.name = "executeCode"
  /\ Outcome(op.code, 0).kind = "throws"
  /\ IsTruthy(activeTool)
  /\ events = <<"error">>
  /\ ~thrown

\* the snippet returned something that is no object with a non-empty string
\* name
ProducesNoTool(o) ==
  /\ o.name = "executeCode"
  /\ Outcome(o.code, 0).kind = "returns"
  /\ BadTool(Outcome(o.code, 0).value)

\* the load registered nothing, activated nothing and called no handler
LoadWasNoOp ==
  /\ tools' = tools
  /\ activeTool' = activeTool
  /\ calls' = <<>>
  /\ ~thrown'

\* C7 as stated: whenever the snippet produces anything other than an object
\* with a non-empty name, the load is a no-op and reports no error.
C7_AsStated ==
  [][ProducesNoTool(op') =>
       /\ LoadWasNoOp
       /\ events' = <<>>
       /\ console' = <<>>]_vars

\* C7 amended: whenever the snippet produces anything other than an object
\* with a non-empty string name, nothing is registered or activated and the
\* active slot is unchanged; no error is reported when the value is not an
\* object or its name is falsy (absent, empty, 0), and an error notification
\* is reported when the name is a truthy non-string value.
C7_NoToolLoad ==
  [][ProducesNoTool(op') =>
       /\ LoadWasNoOp
       /\ IF IsTruthy(NameOf(Outcome(op'.code, 0).value))
          THEN events' = <<"error">> /\ console' = <<"error">>
          ELSE events' = <<>> /\ console' = <<>>]_vars

\* C7 witness: a snippet returned an object without a usable name while a
\* tool was active, and nothing happened.
C7_Witness ==
  /\ ProducesNoTool(op)
  /\ Outcome(op.code, 0).value.t = "object"
  /\ IsTruthy(activeTool)
  /\ calls = <<>>
  /\ events = <<>>

(***************************************************************************)
(* Claims about the pointer session tracker                                *)
(***************************************************************************)
\* C10: when end(u) closes a pointerId whose start was delivered (with
\* moves, and no other start, since), it returns exactly the events
\* delivered for that id since the start, in order, followed by u, and
\* right afterwards get(pointerId) is absent.
C10_EndReturnsWholeSession ==
  [][(op'.name = "end" /\ stroke[op'.data.pointerId] # <<>>) =>
       /\ returned' = Some(Append(stroke[op'.data.pointerId], op'.data))
       /\ get(sessions', op'.data.pointerId) = None]_vars

\* C10 witness: a session of a start, a move and the terminal event was
\* returned while the other pointer's session stayed open.
C10_Witness ==
  /\ op.name = "end"
  /\ returned # None
  /\ Len(returned[1]) = 3
  /\ returned[1][3] = op.data
  /\ returned[1][1].point # returned[1][2].point
  /\ get(sessions, op.data.pointerId) = None
  /\ \E p \in PointerIds : get(sessions, p) # None

(***************************************************************************)
(* Claims about the input router                                           *)
(***************************************************************************)
\* the target of the event lies in a draggable element or in the outline panel
Filtered(ev) == ev.target.draggable \/ ev.target.outline

\* the last operation routed a pointer event that passed the filter
Routed(o) == o.name = "routePointer" /\ ~Filtered(o.ev)

\* the sessions of all pointerIds other than p are the same in ss and tt
SameElsewhere(ss, tt, p) ==
  \A q \in PointerIds \ {p} : get(ss, q) = get(tt, q)

\* whether the handler called by the step threw
Threw(cs) == cs # <<>> /\ cs[1].threw

\* C11: a routed pointercancel event has the effect of a pointerup event with
\* the same data: the session of its pointerId is closed and removed from the
\* tracker (other sessions untouched), the active tool's onPointerUp handler
\* runs with the event's data, one projectChanged notification is emitted and
\* no pointer is captured; every output of the step equals the output of
\* routePointer applied to the pointerup event in the same state.
C11_CancelIsUp ==
  [][(Routed(op') /\ op'.ev.type = "pointercancel") =>
       LET data == makePointerData(op'.ev)
           up == routePointer(RouterMachine, [op'.ev EXCEPT !.type = "pointerup"],
                              Threw(calls'))
       IN /\ data.pointerId \notin DOMAIN sessions'
          /\ SameElsewhere(sessions, sessions', data.pointerId)
          /\ returned' = end(sessions, data).result
          /\ (HasHook(activeTool, "onPointerUp") =>
                CalledOnce(calls', "onPointerUp", activeTool, data))
          /\ (~HasHook(activeTool, "onPointerUp") => calls' = <<>>)
          /\ events' = <<"projectChanged">>
          /\ capture' = None
          /\ ~thrown'
          /\ up.sessions = sessions' /\ up.returned = returned'
          /\ up.calls = calls' /\ up.events = events' /\ up.console = console'
          /\ up.activeTool = activeTool' /\ up.tools = tools'
          /\ up.capture = capture' /\ up.prevented = prevented'
          /\ up.seen = seen']_vars

\* C11 witness: a pointercancel closed an open session of two events and
\* reached the active tool's onPointerUp handler.
C11_Witness ==
  /\ Routed(op)
  /\ op.ev.type = "pointercancel"
  /\ returned # None
  /\ Len(returned[1]) = 3
  /\ op.ev.pointerId \notin DOMAIN sessions
  /\ Len(calls) = 1
  /\ calls[1].hook = "onPointerUp"
  /\ events = <<"projectChanged">>

\* C12: a pointer event whose target lies in a draggable element or in the
\* outline panel is ignored: the tracker and the tool host are unchanged, no
\* handler is called, no pointer is captured, preventDefault is not called and
\* no notification is emitted.
C12_FilteredEventsIgnored ==
  [][(op'.name = "routePointer" /\ Filtered(op'.ev)) =>
       /\ sessions' = sessions
       /\ returned' = None
       /\ tools' = tools
       /\ activeTool' = activeTool
       /\ calls' = <<>>
       /\ console' = <<>>
       /\ events' = <<>>
       /\ capture' = None
       /\ ~prevented'
       /\ ~thrown']_vars

\* C12 witness: a pointerdown inside the outline panel was ignored while a
\* tool with a pointer-down handler was active and a session was open.
C12_Witness ==
  /\ op.name = "routePointer"
  /\ op.ev.type = "pointerdown"
  /\ op.ev.target.outline
  /\ HasHook(activeTool, "onPointerDown")
  /\ op.ev.pointerId \in DOMAIN sessions
  /\ Len(sessions[op.ev.pointerId]) = 2
  /\ calls = <<>>
  /\ events = <<>>
  /\ capture = None

\* C13: a routed pointermove emits no notification; a routed pointerdown,
\* pointerup or pointercancel emits exactly one projectChanged notification,
\* and none has been emitted yet while the tool's handler for the event runs
\* (the notification follows the dispatch), whether or not the handler throws.
C13_NotifyOnDownAndUpOnly ==
  [][Routed(op') =>
       /\ (op'.ev.type = "pointermove" => events' = <<>>)
       /\ (op'.ev.type # "pointermove" =>
             /\ events' = <<"projectChanged">>
             /\ \A i \in DOMAIN seen' : seen'[i].notified = 0)]_vars

\* C13 witness: a pointerup whose handler threw was followed by the single
\* notification.
C13_Witness ==
  /\ Routed(op)
  /\ op.ev.type = "pointerup"
  /\ Len(calls) = 1
  /\ calls[1].threw
  /\ Len(seen) = 1
  /\ seen[1].notified = 0
  /\ events = <<"projectChanged">>

\* C14 as stated: while the handler of a routed down, move or up event runs,
\* get(event.pointerId) returns a session whose last element is that event.
C14_AsStated ==
  [][(Routed(op') /\ calls' # <<>>) =>
       /\ Len(seen') = 1
       /\ seen'[1].session # None
       /\ seen'[1].session[1][Len(seen'[1].session[1])] = makePointerData(op'.ev)]_vars

\* C14: the tracker is updated before the active tool's handler for a routed
\* event runs: what get(event.pointerId) returns while the handler runs is
\* what it returns after the event has been processed.  For a pointerdown it
\* is the session [event]; for a pointermove of a pointerId with an open
\* session it is that session extended by the event, and absent when no
\* session is open; for a pointerup or pointercancel it is absent, because
\* the session has already been closed and removed.
C14_TrackerBeforeHandler ==
  [][(Routed(op') /\ calls' # <<>>) =>
       LET data == makePointerData(op'.ev)
           p == data.pointerId
           type == op'.ev.type
       IN /\ Len(seen') = 1
          /\ seen'[1].session = get(sessions', p)
          /\ (type = "pointerdown" => seen'[1].session = Some(<<data>>))
          /\ ((type = "pointermove" /\ p \in DOMAIN sessions) =>
                seen'[1].session = Some(Append(sessions[p], data)))
          /\ ((type = "pointermove" /\ p \notin DOMAIN sessions) =>
                seen'[1].session = None)
          /\ (type \in {"pointerup", "pointercancel"} =>
                seen'[1].session = None)]_vars

\* C14 witness: the handler of a pointermove saw the session of three events
\* ending in the move.
C14_Witness ==
  /\ Routed(op)
  /\ op.ev.type = "pointermove"
  /\ Len(calls) = 1
  /\ calls[1].hook = "onPointerMove"
  /\ Len(seen) = 1
  /\ seen[1].session # None
  /\ Len(seen[1].session[1]) = 3
  /\ seen[1].session[1][3] = makePointerData(op.ev)

\* the key handler a keyboard operation addresses
KeyOpHook(o) == IF o.name = "handleKeyDown" THEN "onKeyDown" ELSE "onKeyUp"

\* C15: every keydown and keyup event, whatever its target, is dispatched to
\* the tool host: the active tool's onKeyDown resp. onKeyUp handler (when it
\* has one) is called once with the event's key data; the tracker is not
\* touched and no notification is emitted.
C15_KeysAlwaysForwarded ==
  [][op'.name \in {"handleKeyDown", "handleKeyUp"} =>
       /\ (HasHook(activeTool, KeyOpHook(op')) =>
             CalledOnce(calls', KeyOpHook(op'), activeTool, [key |-> op'.ev.key]))
       /\ (~HasHook(activeTool, KeyOpHook(op')) => calls' = <<>>)
       /\ sessions' = sessions
       /\ events' = <<>>
       /\ activeTool' = activeTool
       /\ ~thrown']_vars

\* C15 witness: a keydown whose target lies inside the outline panel reached
\* the active tool's onKeyDown handler while a pointer session was open.
C15_Witness ==
  /\ op.name = "handleKeyDown"
  /\ Filtered(op.ev)
  /\ Len(calls) = 1
  /\ calls[1].hook = "onKeyDown"
  /\ DOMAIN sessions # {}
  /\ events = <<>>

(***************************************************************************)
(* Claims about the overlay bridge                                         *)
(***************************************************************************)
\* the step is one in which a traceToPaper call returns
TraceCompletes(o, done) ==
  \/ o.name = "resume"
  \/ o.name = "traceToPaper" /\ done # None

\* the traceToPaper call that returns in the step has failed: no canvas,
\* tracer not initialised, or an exception in tracing, import or
\* post-processing
TraceFails(o, done) ==
  \/ o.name = "traceToPaper" /\ done # None
  \/ o.name = "resume" /\ o.outcome \in {"rejects", "importThrows", "postThrows"}

\* the project holds an item imported by traceToPaper call k
ImportedBy(prj, k) == \E item \in prj : item.call = k

\* C16: whenever a traceToPaper call returns -- after a successful import,
\* after an exception, with the tracer not initialised or with no canvas --
\* the pixel buffer of the surface the bridge holds (if it holds one) is
\* empty.
C16_TraceLeavesOverlayCleared ==
  [][TraceCompletes(op', completed') =>
       /\ completed' # None
       /\ (IsTruthy(canvas') => pixels'[canvas'.id] = {})
       /\ \A id \in DOMAIN pixels' : pixels'[id] = {}]_vars

\* C16 witness: a trace of a non-empty buffer whose tracer call was rejected
\* returned with the surface it was started on still held, and empty.
C16_Witness ==
  /\ op.name = "resume"
  /\ op.outcome = "rejects"
  /\ completed # None
  /\ completed[1].image # {}
  /\ IsTruthy(canvas)
  /\ canvas.id = op.canvas
  /\ pixels[canvas.id] = {}

\* C17 as stated: a failing traceToPaper call reports the failure, returns
\* null without raising, and leaves no item imported by it in the project.
C17_AsStated ==
  [][TraceFails(op', completed') =>
       /\ console' # <<>>
       /\ completed' # None
       /\ completed'[1].result = Null
       /\ ~thrown'
       /\ ~ImportedBy(project', op'.call)]_vars

\* C17: a failing traceToPaper call reports the failure on the console and
\* returns null without raising.  When it fails before or in the import (no
\* canvas, tracer not initialised, tracer exception, import exception) the
\* project is unchanged; when the exception is raised after the import,
\* while the imported item is rescaled and coloured, the item stays in the
\* project although the call returns null.
C17_FailureReportedAndAbsent ==
  [][TraceFails(op', completed') =>
       /\ console' # <<>>
       /\ completed' # None
       /\ completed'[1].result = Null
       /\ ~thrown'
       /\ ((op'.name = "resume" /\ op'.outcome = "postThrows")
             => ImportedBy(project', op'.call))
       /\ (~(op'.name = "resume" /\ op'.outcome = "postThrows")
             => project' = project)]_vars

\* C17 witness: a trace whose tracer call was rejected returned null, with
\* the failure reported and nothing imported.
C17_Witness ==
  /\ op.name = "resume"
  /\ op.outcome = "rejects"
  /\ completed # None
  /\ completed[1].result = Null
  /\ console = <<"error">>
  /\ ~ImportedBy(project, op.call)
  /\ ~thrown

\* C18: a tracer result that arrives when the bridge no longer holds the
\* surface the trace was started on (destroyed, or destroyed and created
\* again) is not imported into the project.
C18_StaleResultDiscarded ==
  [][(op'.name = "resume" /\ (~IsTruthy(canvas) \/ canvas.id # op'.canvas))
       => project' = project]_vars

\* the fields of the bridge and what it has attached to the document and
\* the window
Surface(b) ==
  <<b.canvas, b.ctx, b.resizeListener, b.body, b.windowListeners, b.pixels>>

\* C19: destroy() raises nothing and leaves the bridge without surface,
\* context and resize listener, with nothing attached to the document or
\* the window; on a bridge that holds neither surface nor listener (never
\* created, or already destroyed) it changes nothing; and destroy() applied
\* twice leaves the state of a single destroy().
C19_DestroyIdempotent ==
  [][op'.name = "destroy" =>
       /\ ~thrown'
       /\ canvas' = Null /\ ctx' = Null /\ resizeListener' = Null
       /\ body' = {} /\ windowListeners' = {}
       /\ ((~IsTruthy(canvas) /\ ~IsTruthy(resizeListener)) =>
             UNCHANGED <<canvas, ctx, resizeListener, body, windowListeners,
                         pixels, project, pending>>)
       /\ destroy(destroy(Bridge)) = destroy(Bridge)
       /\ Surface(destroy(Bridge)) = Surface([canvas |-> canvas', ctx |-> ctx',
                                              resizeListener |-> resizeListener',
                                              body |-> body',
                                              windowListeners |-> windowListeners',
                                              pixels |-> pixels'])]_vars

\* C19 witness: destroy() was called on a bridge that had been created and
\* destroyed before.
C19_Witness ==
  /\ op.name = "destroy"
  /\ ~op.held
  /\ nextEl > 1
  /\ canvas = Null
  /\ resizeListener = Null
  /\ ~thrown

(***************************************************************************)
(* Claims about tool-supplied callbacks                                    *)
(***************************************************************************)
\* C20: an exception raised in a tool-supplied callback (onActivate and
\* onDeactivate during a tool load, onColorChange when the colour panel's
\* timer fires) is caught where the host invokes it: it does not leave the
\* operation that made the call, and the operation's follow-up work is done
\* (the tool-changed notification of a load, the project-changed
\* notification of a colour change).
C20_CallbackErrorsCaught ==
  [][(\E i \in DOMAIN calls' : calls'[i].threw) =>
       /\ ~thrown'
       /\ (op'.name = "loadTool" => Emitted(events', "toolChanged"))
       /\ (op'.name = "colorChangeCallback" =>
             Emitted(events', "projectChanged"))]_vars

(***************************************************************************)
(* Claims about the normaliser                                             *)
(***************************************************************************)
\* a canonical pressure within [0, 1]
InUnitRange(x) == x.t = "float" /\ 0 <= x.h /\ x.h <= 100

\* C21 as stated: a raw event without pressure value gets the canonical
\* pressure 0.5, and every canonical pressure lies in [0, 1].
C21_AsStated ==
  [][op'.name = "makePointerData" =>
       /\ (Nullish(op'.ev.pressure) => returned'[1].pressure = Float(50))
       /\ InUnitRange(returned'[1].pressure)]_vars

\* C21: the canonical pressure of a raw event without pressure value
\* (undefined or null) is 0; otherwise it is the raw pressure, unchanged;
\* for raw pressures within [0, 1] the canonical pressure lies in [0, 1].
C21_PressureDefaultsToZero ==
  [][op'.name = "makePointerData" =>
       /\ (Nullish(op'.ev.pressure) => returned'[1].pressure = Float(0))
       /\ (~Nullish(op'.ev.pressure) => returned'[1].pressure = op'.ev.pressure)
       /\ InUnitRange(returned'[1].pressure)]_vars

\* C21 witness: a raw event without pressure value was normalised.
C21_Witness ==
  /\ op.name = "makePointerData"
  /\ op.ev.pressure = Undefined
  /\ returned # None
  /\ returned[1].pressure = Float(0)
  /\ returned[1].pointerId = op.ev.pointerId

(***************************************************************************)
(* Claims about the coordinate mapping                                     *)
(***************************************************************************)
\* the ratio q equals x times the ratio r
IsProduct(q, x, r) == q.den > 0 /\ q.num * r.den = x * r.num * q.den

\* C22: paperToOverlay maps the point (x, y) to (x * scale, y * scale),
\* whatever the point, the scale and the state of the bridge, and changes
\* nothing; (100, 40) at scale 0.25 is mapped to (25, 10).
C22_PaperToOverlayScales ==
  [][op'.name = "paperToOverlay" =>
       /\ returned' # None
       /\ IsProduct(returned'[1].x, op'.point.x, scale)
       /\ IsProduct(returned'[1].y, op'.point.y, scale)
       /\ ((op'.point = [x |-> 100, y |-> 40] /\ scale = [num |-> 1, den |-> 4]) =>
             returned'[1] = [x |-> [num |-> 25, den |-> 1],
                             y |-> [num |-> 10, den |-> 1]])
       /\ UNCHANGED overlayVars]_vars

\* C22 witness: a created bridge of scale 0.25 mapped (100, 40) to (25, 10).
C22_Witness ==
  /\ op.name = "paperToOverlay"
  /\ op.point = [x |-> 100, y |-> 40]
  /\ scale = [num |-> 1, den |-> 4]
  /\ IsTruthy(canvas)
  /\ returned = Some([x |-> [num |-> 25, den |-> 1], y |-> [num |-> 10, den |-> 1]])

(***************************************************************************)
(* Claims about the order of routed events                                 *)
(***************************************************************************)
\* the one call a routed raw event is expected to cause
Expected(ev) ==
  [type |-> Normal(ev.type),
   data |-> [pointerId |-> ev.pointerId, point |-> ev.clientX - CanvasRect.left,
             pressure |-> IF ev.pressure \in {Undefined, Null}
                          THEN Float(0) ELSE ev.pressure]]

\* C23: every raw pointer event that is not filtered causes exactly one
\* tracker call and exactly one dispatchPointer call, both with the event's
\* pointerId and its type (cancel as up), before the next event is handled;
\* a filtered event causes neither.  So for each pointerId the tracker and
\* the tool host see the same sequence: the non-filtered raw events in
\* arrival order, none reordered, duplicated or dropped.
C23_SameSequence ==
  [][op'.name = "routePointer" =>
       IF Filtered(op'.ev)
       THEN tracked' = <<>> /\ dispatched' = <<>>
       ELSE tracked' = <<Expected(op'.ev)>> /\ dispatched' = <<Expected(op'.ev)>>]_vars

\* C23 witness: a cancel of a tracked contact reached the tracker and the
\* tool host once each, as an up.
C23_Witness ==
  /\ op.name = "routePointer"
  /\ op.ev.type = "pointercancel"
  /\ ~Filtered(op.ev)
  /\ returned # None
  /\ Len(tracked) = 1 /\ tracked[1].type = "pointerup"
  /\ tracked[1].data.pointerId = op.ev.pointerId
  /\ dispatched = tracked

WithSurface == {id \in DOMAIN overlays : IsTruthy(overlays[id].canvas)}

\* C25: with the Pixel Brush template, after every sequence of tool loads,
\* applications and activations, an overlay surface is in the document only
\* as the surface of the bridge of the Pixel Brush instance that is the
\* active tool, and the document holds at most one overlay surface.
C25_SurfaceOnlyWhileActive ==
  /\ Cardinality(body) <= 1
  /\ \A id \in WithSurface : IsTruthy(activeTool) /\ activeTool.id = id
  /\ body = {overlays[id].canvas.id : id \in WithSurface}

\* C25 witness: the Pixel Brush was loaded again while an earlier instance
\* was active with its surface; the earlier surface is gone and the new
\* instance's surface is the only one.
C25_Witness ==
  /\ op.name = "loadTool" /\ op.toolName = "pixelbrush"
  /\ nextEl = 3
  /\ body = {2}
  /\ IsTruthy(activeTool)
  /\ WithSurface = {activeTool.id}

(***************************************************************************)
(* Claims about the host's active slot                                     *)
(***************************************************************************)
\* C26: once a tool is active, no register, activate (known or unknown
\* name), dispatchPointer, dispatchKey, code application or tool load
\* (successful or failing) leaves the host without an active tool.
C26_NeverIdleAgain ==
  [][IsTruthy(getActiveTool(Machine)) => IsTruthy(activeTool')]_vars

\* C26 witness: an unknown name was activated, or a tool load failed, while
\* a tool was active, and a tool is still active.
C26_Witness ==
  /\ \/ op.name = "activate" /\ op.toolName = "Unknown"
     \/ op.name = "loadTool" /\ op.toolName = "missing"
  /\ console # <<>>
  /\ IsTruthy(activeTool)

(***************************************************************************)
(* Claims about the lifecycle handlers                                     *)
(***************************************************************************)
\* the call c continues the alternation recorded in l: an activation is the
\* object's first lifecycle call or follows a deactivation, a deactivation
\* follows an activation
Alternates(l, c) ==
  IF c.hook = "onActivate"
  THEN c.tool \notin DOMAIN l \/ l[c.tool] = "onDeactivate"
  ELSE c.tool \in DOMAIN l /\ l[c.tool] = "onActivate"

\* the lifecycle handler calls recorded before the i-th call of cs
Before(l, cs, i) == Lifecycle(l, SubSeq(cs, 1, i - 1))

\* C27 as stated: for every tool instance the host's calls to its activation
\* and deactivation handlers strictly alternate, starting with activation,
\* and each is made on the instance in the active slot.
C27_AsStated ==
  [][\A i \in DOMAIN calls' :
       calls'[i].hook \in LifecycleHooks =>
         /\ calls'[i].tool = calls'[i].active
         /\ Alternates(Before(lifecycle, calls', i), calls'[i])]_vars

\* the object the i-th call of the step is made on defines both handlers
DefinesBoth(i) ==
  LET c == calls'[i]
      obj == IF c.hook = "onDeactivate" THEN activeTool ELSE activeTool'
  IN HasHook(obj, "onActivate") /\ HasHook(obj, "onDeactivate")

\* C27: a deactivation handler is called only on the instance in the active
\* slot and an activation handler only on the instance just placed in it;
\* for an instance that defines both handlers the calls strictly alternate,
\* starting with activation.
C27_LifecycleAlternates ==
  [][\A i \in DOMAIN calls' :
       calls'[i].hook \in LifecycleHooks =>
         /\ calls'[i].tool = calls'[i].active
         /\ calls'[i].hook = "onDeactivate" => calls'[i].tool = IdOf(activeTool)
         /\ calls'[i].hook = "onActivate" => calls'[i].tool = IdOf(activeTool')
         /\ DefinesBoth(i) =>
              Alternates(Before(lifecycle, calls', i), calls'[i])]_vars

\* C27 witness: the active tool, which defines both handlers, was activated
\* again: it was deactivated and then activated in the same call.
C27_Witness ==
  /\ op.name = "activate"
  /\ Len(calls) = 2
  /\ calls[1].hook = "onDeactivate" /\ calls[2].hook = "onActivate"
  /\ calls[1].tool = calls[2].tool
  /\ IsTruthy(activeTool) /\ activeTool.id = calls[2].tool
  /\ lifecycle[activeTool.id] = "onActivate"

(***************************************************************************)
(* Claims about the active slot and the registry                           *)
(***************************************************************************)
\* the slot holds a tool whose name is a key of the registry tls
NameRegistered(a, tls) ==
  IsTruthy(a) => NameOf(a).t = "string" /\ NameOf(a).v \in DOMAIN tls

\* the slot holds another object than the registry holds under its name
Differs(a, tls) ==
  /\ IsTruthy(a)
  /\ NameOf(a).t = "string" /\ NameOf(a).v \in DOMAIN tls
  /\ tls[NameOf(a).v] # a

\* C28: the registry never loses a key, and the active slot is empty or holds
\* a tool whose name is a key of the registry.  The active instance comes to
\* differ from the instance registered under its name only by a registration
\* under that name, and it does not differ after an activation of a
\* registered name.
C28_ActiveIsRegistered ==
  [][/\ DOMAIN tools \subseteq DOMAIN tools'
     /\ NameRegistered(activeTool', tools')
     /\ (~Differs(activeTool, tools) /\ Differs(activeTool', tools')) =>
          /\ op'.name = "register"
          /\ NameOf(op'.tool) = NameOf(activeTool)
          /\ activeTool' = activeTool
     /\ (op'.name = "activate" /\ op'.toolName \in DOMAIN tools) =>
          ~Differs(activeTool', tools')]_vars

\* C28 witness: a tool was registered under the name of the active tool; the
\* active instance is not the registered one.
C28_Witness ==
  /\ op.name = "register"
  /\ Differs(activeTool, tools)
  /\ NameOf(op.tool) = NameOf(activeTool)

(***************************************************************************)
(* Claims about the bridge's surface and listener                          *)
(***************************************************************************)
\* C29: after any sequence of create() and destroy() calls on a bridge, the
\* bridge holds a surface if and only if it has a registered resize
\* listener; the document holds no overlay surface but the one the bridge
\* holds and the window no resize listener but the bridge's, so never more
\* than one of either.
C29_SurfaceIffListener ==
  /\ IsTruthy(canvas) <=> IsTruthy(resizeListener)
  /\ body = (IF IsTruthy(canvas) THEN {canvas.id} ELSE {})
  /\ windowListeners = (IF IsTruthy(resizeListener) THEN {resizeListener.id} ELSE {})
  /\ Cardinality(body) <= 1
  /\ Cardinality(windowListeners) <= 1

\* C29 witness: create() was called on a bridge that already held a surface
\* and found the host canvas; the bridge holds the new surface only.
C29_Witness ==
  /\ op.name = "create"
  /\ op.held /\ op.paperCanvas
  /\ IsTruthy(canvas) /\ canvas.id = 2
  /\ body = {2}
  /\ windowListeners = {2}

Handed(ts, id) == UNION {t.image : t \in {u \in ts : u.canvas = id}}

\* C31: the clear that ends a traceToPaper call erases only pixels that were
\* handed to the tracer, by that call or by another call still in flight:
\* nothing drawn onto the overlay while the trace was in flight is erased
\* without having been traced.
C31_AsStated ==
  [][op'.name = "resume" =>
       \A id \in DOMAIN pixels \cap DOMAIN pixels' :
         (pixels[id] \ pixels'[id]) \subseteq Handed(pending, id)]_vars

\* the notifications ns include a project-changed notification
Notified(ns) == \E i \in DOMAIN ns : ns[i] = "projectChanged"

\* C32: every import of traced geometry into the project by traceToPaper is
\* followed by a project-changed notification: the continuation that imports
\* the traced result notifies the listeners.
C32_AsStated ==
  [][(op'.name = "resume" /\ project' # project) => Notified(events')]_vars

(***************************************************************************)
(* Claims about what a tool load reports                                   *)
(***************************************************************************)
\* the tool object the load created is the active tool
BecameActive ==
  /\ Holds(tools', nextId)
  /\ IsTruthy(activeTool') /\ activeTool'.id = nextId

\* C33: loadTool(key) emits a tool-changed notification and updates the
\* current tool name only when the tool produced by the template has become
\* the active tool; otherwise (unknown key, or code that produces no active
\* tool) it emits an error notification, no tool-changed notification, and
\* leaves the current tool name unchanged.
C33_AsStated ==
  [][op'.name = "loadTool" =>
       IF BecameActive THEN Emitted(events', "toolChanged")
       ELSE /\ Emitted(events', "error")
            /\ ~Emitted(events', "toolChanged")
            /\ currentToolName' = currentToolName]_vars

(***************************************************************************)
(* Claims about tracker calls out of order                                 *)
(***************************************************************************)
\* C34: move(event) and end(event) for a pointerId that has no session
\* change nothing: no session is created for that id, the sessions of the
\* other pointerIds are as they were, and end returns absent.
C34_NoSessionNoOp ==
  [][(op'.name \in {"move", "end"} /\ get(sessions, op'.data.pointerId) = None) =>
       /\ sessions' = sessions
       /\ get(sessions', op'.data.pointerId) = None
       /\ SameElsewhere(sessions, sessions', op'.data.pointerId)
       /\ op'.name = "end" => returned' = None]_vars

\* C34 witness: end was called for a pointerId without a session while the
\* other pointerId had one; it returned absent and the other session is
\* still there.
C34_Witness ==
  /\ op.name = "end"
  /\ returned = None
  /\ get(sessions, op.data.pointerId) = None
  /\ \E q \in PointerIds \ {op.data.pointerId} :
       get(sessions, q) # None /\ Len(sessions[q]) > 1

\* C35: start(event) for a pointerId that already has a session replaces it:
\* afterwards the session of that id is exactly <<event>>, whatever the
\* earlier session held, nothing is raised, and the sessions of the other
\* pointerIds are unchanged.
C35_StartReplaces ==
  [][(op'.name = "start" /\ get(sessions, op'.data.pointerId) # None) =>
       /\ get(sessions', op'.data.pointerId) = Some(<<op'.data>>)
       /\ DOMAIN sessions' = DOMAIN sessions
       /\ SameElsewhere(sessions, sessions', op'.data.pointerId)
       /\ ~thrown']_vars

\* C35 witness: start was called for a pointerId whose session held two or
\* more events; the session now holds the new event only, next to the other
\* pointerId's session.
C35_Witness ==
  /\ op.name = "start"
  /\ op.replaced > 1
  /\ sessions[op.data.pointerId] = <<op.data>>
  /\ get(sessions, op.data.pointerId) = Some(<<op.data>>)
  /\ DOMAIN sessions = PointerIds

====
